---- MODULE Spec2Model ----
(***************************************************************************)
(* Bootstrap pipeline of the CernVM-FS client (cvmfs/mountpoint.cc).       *)
(*                                                                         *)
(* Several processes share one workspace directory and one file system     *)
(* name.  Each process creates and destroys FileSystem objects; the        *)
(* workspace holds the lock file lock.<name> and the crash sentinel        *)
(* running.<name>.  Every stage of FileSystem::Create is an operator on    *)
(* the object's fields; an action runs the stages up to and including the  *)
(* next call that touches the shared directory or that can block, so that  *)
(* the processes interleave exactly where the operating system lets them.  *)
(***************************************************************************)
EXTENDS Integers, Sequences, FiniteSets, TLC

\* Number of processes that use the workspace.
NProc == 2

Procs == 1..NProc

\* Inodes a lock file can have: one per open descriptor plus the named one.
Inodes == 0..NProc

\* lock_file value when no file is named lock.<name>
NoFile == -1

VARIABLES
  fs,          \* fs[p]: the FileSystem object of process p and its position
  g_alive,     \* g_alive[p]: FileSystem::g_alive of process p
  n_alive,     \* n_alive[p]: number of FileSystem objects alive in process p
  lock_file,   \* inode currently named <workspace>/lock.<name>, or NoFile
  flock_owner, \* flock_owner[i]: process holding flock(LOCK_EX) on inode i, 0 if none
  running_file,\* TRUE iff <workspace>/running.<name> exists
  mp,          \* mp[p]: the MountPoint built on the FileSystem of process p
  cache,       \* the run of the cache manager factory that is looked at on its
               \* own: its configuration, its position and what it returned
  unit,        \* the member function or object of MountPoint or FileSystem that
               \* is looked at on its own: its options, its position, its
               \* threads and what it returned
  env          \* the scenario, fixed by the initial state:
               \*   procs: the processes that run,
               \*   full:  the processes whose boots draw from the whole option
               \*          and fault space; the others boot a fuse module
               \*          without faults and only choose whether to wait for
               \*          the workspace lock,
               \*   mounts: the processes that build a MountPoint

vars == <<fs, g_alive, n_alive, lock_file, flock_owner, running_file, mp, cache, unit, env>>

-----------------------------------------------------------------------------
\* Boot status codes (loader::Failures) used by FileSystem and MountPoint.
FailureCodes ==
  {"kFailOptions", "kFailCacheDir", "kFailLockWorkspace", "kFailQuota",
   "kFailNfsMaps", "kFailSignature", "kFailWpad", "kFailCatalog",
   "kFailHistory"}

\* Order of the stages of FileSystem::Create.  "LockFile" is the blocking
\* call inside LockWorkspace; it runs only after a would-block.
StageOrder ==
  <<"SetupLogging", "CreateStatistics", "SetupSqlite", "DetermineNfsMode",
    "SetupWorkspace", "LockWorkspace", "SetupCwd", "SetupCrashGuard",
    "TriageCacheMgr", "SetupUuid", "SetupNfsMaps", "RegisterVfsRdOnly">>

\* Positions of a process inside ~FileSystem.
DtorPcs == {"dtor_unlink_lock", "dtor_unlock"}

\* Positions at which no FileSystem object exists in the process.
NoObjectPcs == {"none", "destroyed", "aborted"}

\* The fields of a FileSystem right after the constructor's initializer list
\* and after SetupLogging, CreateStatistics and SetupSqlite, which cannot fail.
\* pc is the position of the process.  stages, failed_at and lock_was_held are
\* history fields: the stages run so far, the stage that failed ("" if none),
\* and whether TryLockFile found the lock held by another context.  released
\* is the history of the destructor: what it has released so far, in order.
NewFileSystem(wait, type) ==
  [pc                    |-> "Create",
   boot_status_          |-> "kFailUnknown",
   wait_workspace_       |-> wait,
   type_                 |-> type,
   nfs_mode_             |-> "kNfsNone",
   fd_lockfile           |-> -1,
   fd_workspace_lock_    |-> -1,
   path_workspace_lock_  |-> FALSE,
   path_crash_guard_     |-> FALSE,
   found_previous_crash_ |-> FALSE,
   cache_mgr_            |-> "NULL",
   uuid_cache_           |-> FALSE,
   has_nfs_maps_         |-> FALSE,
   has_custom_sqlitevfs_ |-> FALSE,
   stages                |-> <<"SetupLogging", "CreateStatistics", "SetupSqlite">>,
   failed_at             |-> "",
   lock_was_held         |-> FALSE,
   released              |-> <<>>]

\* Placeholder record of a process without a FileSystem object.
NoFileSystem(pc) == [NewFileSystem(FALSE, "kFsFuse") EXCEPT !.pc = pc, !.stages = <<>>]

\* Placeholder of a process without a MountPoint object.
NoMountPoint == [pc |-> "none"]

\* Order of the stages of MountPoint::Create.
MountStageOrder ==
  <<"CreateStatistics", "CreateAuthz", "BackoffThrottle", "CreateSignatureManager",
    "CheckBlacklists", "CreateDownloadManagers", "CreateFetchers",
    "CreateCatalogManager", "CreateTracer", "ReEvaluateAuthz", "CreateTables",
    "SetupBehavior">>

\* MountPoint::MountPoint: every collaborator pointer is NULL.  built is the
\* set of members that point to a constructed object; stages and failed_at
\* are history fields as in NewFileSystem.
NewMountPoint ==
  [pc             |-> "ready",
   boot_status_   |-> "kFailUnknown",
   built          |-> {},
   fixed_catalog_ |-> FALSE,
   stages         |-> <<>>,
   failed_at      |-> ""]

\* The collaborator calls of MountPoint::Create that can report an error.
MountFaults ==
  {"keys", "certs", "blacklist", "proxies", "ext_proxies", "owner_maps",
   "history", "catalog"}

\* What the options, the files and the network give MountPoint::Create: the
\* call that reports an error ("none": every call succeeds), whether the
\* root hash is fixed by CVMFS_ROOT_HASH or a tag ("hash") or is the head of
\* the repository ("null"), whether CVMFS_AUTO_UPDATE is off and whether
\* CVMFS_TRACEFILE is set.  An option that is read only after the failing
\* call is left at its default.
MountInputs ==
  [fault : {"none"}, root_hash : {"null", "hash"},
   no_auto_update : BOOLEAN, tracefile : BOOLEAN]
  \cup [fault : {"catalog"}, root_hash : {"null", "hash"},
        no_auto_update : {FALSE}, tracefile : {FALSE}]
  \cup [fault : MountFaults \ {"catalog"}, root_hash : {"null"},
        no_auto_update : {FALSE}, tracefile : {FALSE}]

\* fs_info values a caller of process p passes to FileSystem::Create.
WaitChoices(p) == BOOLEAN

TypeChoices(p) == IF p \in env.full THEN {"kFsFuse", "kFsLibrary"} ELSE {"kFsFuse"}

\* Values of CVMFS_NFS_SOURCE / CVMFS_NFS_SHARED, as the mode they select.
NfsChoices(p) == IF p \in env.full THEN {"kNfsNone", "kNfsMaps", "kNfsMapsHa"} ELSE {"kNfsNone"}

\* Whether a system call or collaborator of process p can fail.
Faults(p) == IF p \in env.full THEN BOOLEAN ELSE {FALSE}

\* Cache instance names the option CVMFS_CACHE_PRIMARY can hold: the length
\* of the name and whether all characters are letters, digits or '_'.
\* Length 0 is the unset or empty option.
PrimaryNames(p) ==
  IF p \in env.full
    THEN [length : {0, 7, 24, 25}, sane : BOOLEAN]
    ELSE [length : {0}, sane : {TRUE}]

\* Results of SetupCacheMgr for the primary instance: the kind of manager it
\* built, or the boot status set by the branch that failed.
SetupCacheMgrResults(p) ==
  IF p \in env.full
    THEN {"posix", "other", "kFailOptions", "kFailCacheDir", "kFailQuota"}
    ELSE {"posix"}

-----------------------------------------------------------------------------
\* Inodes referenced by the directory entry or by an open descriptor.
UsedInodes ==
  {lock_file} \cup {fs[q].fd_lockfile : q \in Procs}
              \cup {fs[q].fd_workspace_lock_ : q \in Procs}

\* The inode a newly created file gets.
FreshInode ==
  CHOOSE i \in Inodes : i \notin UsedInodes /\ \A j \in Inodes : j < i => j \in UsedInodes

\* open(path, O_RDONLY | O_CREAT) in TryLockFile and LockFile: the inode the
\* descriptor refers to, which is also the inode the path names afterwards.
OpenCreat == IF lock_file = NoFile THEN FreshInode ELSE lock_file

\* flock(fd, LOCK_EX | LOCK_NB) in TryLockFile on inode i by process p:
\* the value TryLockFile returns.
TryLockFile_result(i, flock_fails) ==
  IF flock_fails THEN -1
  ELSE IF flock_owner[i] # 0 THEN -2
  ELSE i

\* The lock table after process p got a lock primitive's return value ret.
Flocked(p, ret) == IF ret >= 0 THEN [flock_owner EXCEPT ![ret] = p] ELSE flock_owner

\* UnlockFile(fd): flock(LOCK_UN) and close.
UnlockFile(fd) == [flock_owner EXCEPT ![fd] = 0]

\* Process exit closes every descriptor, which drops its flock.
ReleasedByExit(p) == [i \in Inodes |-> IF flock_owner[i] = p THEN 0 ELSE flock_owner[i]]

Update(p, rec) == fs' = [fs EXCEPT ![p] = rec]

\* A boot stage fails: it sets the status (code "" if it sets none) and
\* returns false.
Fail(rec, stage, code) ==
  [rec EXCEPT !.failed_at = stage,
              !.boot_status_ = IF code = "" THEN @ ELSE code]

Ran(rec, stage) == [rec EXCEPT !.stages = Append(@, stage)]

\* A Create that runs every stage whatever the earlier ones returned.
Returned_Never(r) == FALSE

\* "if (!stage()) return file_system.Release();" in FileSystem::Create and
\* "if (!stage()) return false;" in SetupWorkspace: a later stage runs only
\* when no stage has failed.
Returned(r) == r.failed_at # ""

\* The position after a run of stages: back in the caller once a stage failed.
At(r, pc) == [r EXCEPT !.pc = IF Returned(r) THEN "ready" ELSE pc]

-----------------------------------------------------------------------------
\* The stages of FileSystem::Create as operators on the object's fields.

\* FileSystem::DetermineNfsMode.
DetermineNfsMode(r0, mode) ==
  LET r == [Ran(r0, "DetermineNfsMode") EXCEPT !.nfs_mode_ = mode]
  IN  IF r.type_ = "kFsLibrary" /\ r.nfs_mode_ # "kNfsNone"
        THEN Fail(r, "DetermineNfsMode", "kFailOptions")
        ELSE r

\* FileSystem::SetupWorkspace up to MkdirDeep: the workspace path is resolved
\* (CVMFS_CACHE_DIR together with CVMFS_CACHE_BASE is an error) and the
\* directory is created.
SetupWorkspace(r0, base_and_dir, mkdir_fails) ==
  LET r == Ran(r0, "SetupWorkspace")
  IN  IF base_and_dir THEN Fail(r, "SetupWorkspace", "kFailOptions")
      ELSE IF mkdir_fails THEN Fail(r, "SetupWorkspace", "kFailCacheDir")
      ELSE r

\* FileSystem::LockWorkspace lines 388-390, up to the open() in TryLockFile:
\* the path of the lock file is set; a failed open makes TryLockFile return -1.
LockWorkspace(r0, open_fails, inode) ==
  LET r == [Ran(r0, "LockWorkspace") EXCEPT !.path_workspace_lock_ = TRUE]
  IN  IF open_fails
        THEN Fail([r EXCEPT !.fd_workspace_lock_ = -1], "LockWorkspace", "kFailCacheDir")
        ELSE [r EXCEPT !.fd_lockfile = inode]

\* LockWorkspace as it would be if it called LockFile whatever wait_workspace_
\* says.
LockWorkspace_TryLockFile_AlwaysWaits(r0, ret) ==
  LET r == [r0 EXCEPT !.fd_lockfile = -1, !.fd_workspace_lock_ = ret,
                       !.lock_was_held = (ret = -2)]
  IN  IF ret >= 0 THEN r
      ELSE IF ret = -1 THEN Fail(r, "LockWorkspace", "kFailCacheDir")
      ELSE [r EXCEPT !.pc = "call_LockFile"]

\* FileSystem::LockWorkspace lines 390-406: the return value of TryLockFile.
\* "call_LockFile" is the position in front of line 408.
LockWorkspace_TryLockFile(r0, ret) ==
  LET r == [r0 EXCEPT !.fd_lockfile = -1, !.fd_workspace_lock_ = ret,
                       !.lock_was_held = (ret = -2)]
  IN  IF ret >= 0 THEN r
      ELSE IF ret = -1 THEN Fail(r, "LockWorkspace", "kFailCacheDir")
      ELSE IF ~r.wait_workspace_ THEN Fail(r, "LockWorkspace", "kFailLockWorkspace")
      ELSE [r EXCEPT !.pc = "call_LockFile"]

\* A LockWorkspace that reports lock contention after LockFile came back.
LockWorkspace_LockFile_GivesUp(r0, ret) ==
  LET r == [r0 EXCEPT !.fd_lockfile = -1, !.fd_workspace_lock_ = -2]
  IN  Fail(r, "LockWorkspace", "kFailLockWorkspace")

\* FileSystem::LockWorkspace lines 408-415: the return value of LockFile.
LockWorkspace_LockFile(r0, ret) ==
  LET r == [r0 EXCEPT !.fd_lockfile = -1, !.fd_workspace_lock_ = ret]
  IN  IF ret < 0 THEN Fail(r, "LockWorkspace", "kFailCacheDir") ELSE r

\* FileSystem::SetupCwd: the fuse module changes into the workspace.
SetupCwd(r0, chdir_fails) ==
  LET r == Ran(r0, "SetupCwd")
  IN  IF r.type_ = "kFsFuse" /\ chdir_fails
        THEN Fail(r, "SetupCwd", "kFailCacheDir")
        ELSE r

\* FileSystem::SetupCrashGuard: stat of running.<name>, then open with O_CREAT.
SetupCrashGuard(r0, exists, open_fails) ==
  LET r == [Ran(r0, "SetupCrashGuard") EXCEPT
              !.path_crash_guard_ = TRUE,
              !.found_previous_crash_ = exists]
  IN  IF open_fails THEN Fail(r, "SetupCrashGuard", "kFailCacheDir") ELSE r

\* FileSystem::CheckInstanceName: "sets" is the boot status it assigns.
CheckInstanceName(instance) ==
  IF instance.length > 24 THEN [ok |-> FALSE, sets |-> ""]
  ELSE IF ~instance.sane THEN [ok |-> FALSE, sets |-> "kFailCacheDir"]
  ELSE [ok |-> TRUE, sets |-> ""]

\* FileSystem::TriageCacheMgr.  res is what SetupCacheMgr does for the
\* primary instance.
TriageCacheMgr(r0, instance, res) ==
  LET r == Ran(r0, "TriageCacheMgr")
      chk == CheckInstanceName(instance)
  IN  IF instance.length > 0 /\ ~chk.ok THEN Fail(r, "TriageCacheMgr", chk.sets)
      ELSE IF res \in FailureCodes THEN Fail(r, "TriageCacheMgr", res)
      ELSE [r EXCEPT !.cache_mgr_ = res]

\* FileSystem::SetupUuid: falls back to an in-memory uuid, never fails.
SetupUuid(r0) == [Ran(r0, "SetupUuid") EXCEPT !.uuid_cache_ = TRUE]

IsNfsSource(r) == r.nfs_mode_ # "kNfsNone"

\* FileSystem::SetupNfsMaps.  The library build has no NFS support compiled
\* in.  no_nfs_sentinel: whether no_nfs_maps.<name> exists in the cache.
SetupNfsMaps(r0, no_nfs_sentinel, mkdir_fails, init_fails) ==
  LET r == Ran(r0, "SetupNfsMaps")
      failed == Fail(r, "SetupNfsMaps", "kFailNfsMaps")
  IN  IF r.type_ = "kFsLibrary" THEN r
      ELSE IF r.cache_mgr_ # "posix" THEN (IF IsNfsSource(r) THEN failed ELSE r)
      ELSE IF ~IsNfsSource(r) THEN r
      ELSE IF no_nfs_sentinel \/ mkdir_fails \/ init_fails THEN failed
      ELSE [r EXCEPT !.has_nfs_maps_ = TRUE]

\* FileSystem::Create lines 169-179: the read-only SQLite VFS is registered
\* and the boot status becomes kFailOk.
RegisterVfsRdOnly(r0) ==
  [Ran(r0, "RegisterVfsRdOnly") EXCEPT !.has_custom_sqlitevfs_ = TRUE,
                                       !.boot_status_ = "kFailOk"]

-----------------------------------------------------------------------------
\* Initial state: no process has a FileSystem, the workspace is empty.
InitWorkspace ==
  /\ fs = [p \in Procs |-> NoFileSystem("none")]
  /\ g_alive = [p \in Procs |-> FALSE]
  /\ n_alive = [p \in Procs |-> 0]
  /\ lock_file = NoFile
  /\ flock_owner = [i \in Inodes |-> 0]
  /\ running_file = FALSE
  /\ mp = [p \in Procs |-> NoMountPoint]
  /\ cache = [pc |-> "none"]
  /\ unit = [pc |-> "none"]

\* A constructor that forgets to set g_alive.
FileSystem_ctor_LeavesFlag(p) ==
  /\ g_alive' = g_alive
  /\ n_alive' = [n_alive EXCEPT ![p] = @ + 1]

\* FileSystem::FileSystem: the initializer list, then g_alive = true.  The
\* assertion in front of it is evaluated by Create below.
FileSystem_ctor(p) ==
  /\ g_alive' = [g_alive EXCEPT ![p] = TRUE]
  /\ n_alive' = [n_alive EXCEPT ![p] = @ + 1]

\* A failed assert() aborts the process: its memory is gone, the kernel closes
\* its descriptors and so drops its locks; files stay in the workspace.
Abort(p) ==
  /\ Update(p, NoFileSystem("aborted"))
  /\ g_alive' = [g_alive EXCEPT ![p] = FALSE]
  /\ n_alive' = [n_alive EXCEPT ![p] = 0]
  /\ flock_owner' = ReleasedByExit(p)
  /\ mp' = [mp EXCEPT ![p] = NoMountPoint]
  /\ UNCHANGED <<env, cache, unit, lock_file, running_file>>

\* FileSystem::Create from "new FileSystem(fs_info)" to the open() of the lock
\* file in SetupWorkspace / LockWorkspace / TryLockFile.  A caller may call
\* Create while the process still has a FileSystem; assert(!g_alive) decides.
Create(p) ==
  /\ p \in env.procs
  /\ fs[p].pc \in {"none", "destroyed", "ready"}
  /\ IF g_alive[p]
       THEN Abort(p)
       ELSE /\ FileSystem_ctor(p)
            /\ \E wait \in WaitChoices(p), type \in TypeChoices(p), mode \in NfsChoices(p),
                  base_and_dir \in Faults(p), mkdir_fails \in Faults(p),
                  open_fails \in Faults(p) :
                 LET r1 == DetermineNfsMode(NewFileSystem(wait, type), mode)
                     r2 == IF Returned(r1) THEN r1
                           ELSE SetupWorkspace(r1, base_and_dir, mkdir_fails)
                     r3 == IF Returned(r2) THEN r2
                           ELSE LockWorkspace(r2, open_fails, OpenCreat)
                 IN  /\ Update(p, At(r3, "TryLockFile_flock"))
                     /\ lock_file' = IF Returned(r3) THEN lock_file ELSE OpenCreat
            /\ UNCHANGED <<env, cache, unit, flock_owner, running_file, mp>>

\* The aborted process is started again.
Restart(p) ==
  /\ fs[p].pc = "aborted"
  /\ Update(p, NoFileSystem("none"))
  /\ UNCHANGED <<env, cache, unit, mp, g_alive, n_alive, lock_file, flock_owner, running_file>>

\* TryLockFile's flock(LOCK_EX | LOCK_NB) and what LockWorkspace makes of the
\* result; with the lock, SetupCwd follows.
TryLockFile_flock(p) ==
  /\ fs[p].pc = "TryLockFile_flock"
  /\ \E flock_fails \in Faults(p), chdir_fails \in Faults(p) :
       LET ret == TryLockFile_result(fs[p].fd_lockfile, flock_fails)
           r1 == LockWorkspace_TryLockFile(fs[p], ret)
           r2 == IF Returned(r1) \/ r1.pc = "call_LockFile" THEN r1
                 ELSE SetupCwd(r1, chdir_fails)
       IN  /\ Update(p, IF r2.pc = "call_LockFile" THEN r2 ELSE At(r2, "SetupCrashGuard"))
           /\ flock_owner' = Flocked(p, ret)
  /\ UNCHANGED <<env, cache, unit, mp, g_alive, n_alive, lock_file, running_file>>

\* LockFile, called from LockWorkspace line 408, opens the lock file again.
LockFile_open(p) ==
  /\ fs[p].pc = "call_LockFile"
  /\ \E open_fails \in Faults(p) :
       LET r0 == Ran(fs[p], "LockFile")
           r1 == IF open_fails THEN LockWorkspace_LockFile(r0, -1)
                 ELSE [r0 EXCEPT !.fd_lockfile = OpenCreat]
       IN  /\ Update(p, At(r1, "LockFile_flock"))
           /\ lock_file' = IF open_fails THEN lock_file ELSE OpenCreat
  /\ UNCHANGED <<env, cache, unit, mp, g_alive, n_alive, flock_owner, running_file>>

\* LockFile's flock: it returns with the lock as soon as the inode is free
\* (at once, or after blocking), or with an error; with the lock, SetupCwd
\* follows.
LockFile_flock(p) ==
  /\ fs[p].pc = "LockFile_flock"
  /\ \E flock_fails \in Faults(p), chdir_fails \in Faults(p) :
       LET ret == IF flock_fails THEN -1 ELSE fs[p].fd_lockfile
           r1 == LockWorkspace_LockFile(fs[p], ret)
           r2 == IF Returned(r1) THEN r1 ELSE SetupCwd(r1, chdir_fails)
       IN  /\ flock_fails \/ flock_owner[fs[p].fd_lockfile] = 0
           /\ Update(p, At(r2, "SetupCrashGuard"))
           /\ flock_owner' = Flocked(p, ret)
  /\ UNCHANGED <<env, cache, unit, mp, g_alive, n_alive, lock_file, running_file>>

\* FileSystem::SetupWorkspace line 931: the crash sentinel is looked up and
\* created.
SetupWorkspace_CrashGuard(p) ==
  /\ fs[p].pc = "SetupCrashGuard"
  /\ \E open_fails \in Faults(p) :
       LET r1 == SetupCrashGuard(fs[p], running_file, open_fails)
       IN  /\ Update(p, At(r1, "TriageCacheMgr"))
           /\ running_file' = IF Returned(r1) THEN running_file ELSE TRUE
  /\ UNCHANGED <<env, cache, unit, mp, g_alive, n_alive, lock_file, flock_owner>>

\* FileSystem::Create lines 156-166: the cache manager is resolved and the
\* uuid is loaded from the workspace.
Create_CacheMgr(p) ==
  /\ fs[p].pc = "TriageCacheMgr"
  /\ \E instance \in PrimaryNames(p), res \in SetupCacheMgrResults(p) :
       LET r1 == TriageCacheMgr(fs[p], instance, res)
           r2 == IF Returned(r1) THEN r1 ELSE SetupUuid(r1)
       IN  Update(p, At(r2, "SetupNfsMaps"))
  /\ UNCHANGED <<env, cache, unit, mp, g_alive, n_alive, lock_file, flock_owner, running_file>>

\* FileSystem::Create lines 167-179: the NFS maps, the SQLite VFS, kFailOk.
Create_NfsMaps(p) ==
  /\ fs[p].pc = "SetupNfsMaps"
  /\ \E no_nfs_sentinel \in BOOLEAN, mkdir_fails \in Faults(p), init_fails \in Faults(p) :
       LET r1 == SetupNfsMaps(fs[p], no_nfs_sentinel, mkdir_fails, init_fails)
           r2 == IF Returned(r1) THEN r1 ELSE RegisterVfsRdOnly(r1)
       IN  Update(p, [r2 EXCEPT !.pc = "ready"])
  /\ UNCHANGED <<env, cache, unit, mp, g_alive, n_alive, lock_file, flock_owner, running_file>>

-----------------------------------------------------------------------------
\* A destructor that deletes the cache manager in front of the uuid.
Dtor_Releases_CacheMgrFirst(r) ==
  (IF r.has_custom_sqlitevfs_ THEN <<"sqlitevfs">> ELSE <<>>)
  \o (IF r.cache_mgr_ # "NULL" THEN <<"cache_mgr_">> ELSE <<>>)
  \o (IF r.uuid_cache_ THEN <<"uuid_cache_">> ELSE <<>>)
  \o (IF r.has_nfs_maps_ THEN <<"nfs_maps">> ELSE <<>>)
  \o (IF r.path_crash_guard_ THEN <<"crash_guard">> ELSE <<>>)

\* The releases of ~FileSystem lines 353-369 on the object r, in the order of
\* the statements; a release whose condition is false or whose pointer is
\* NULL does nothing.
Dtor_Releases(r) ==
  (IF r.has_custom_sqlitevfs_ THEN <<"sqlitevfs">> ELSE <<>>)
  \o (IF r.uuid_cache_ THEN <<"uuid_cache_">> ELSE <<>>)
  \o (IF r.has_nfs_maps_ THEN <<"nfs_maps">> ELSE <<>>)
  \o (IF r.cache_mgr_ # "NULL" THEN <<"cache_mgr_">> ELSE <<>>)
  \o (IF r.path_crash_guard_ THEN <<"crash_guard">> ELSE <<>>)

\* FileSystem::~FileSystem lines 350-369: the SQLite VFS is unregistered, the
\* uuid, the NFS maps and the cache manager are released, and running.<name>
\* is unlinked if its path is set.
Dtor_UnlinkCrashGuard(p) ==
  /\ fs[p].pc \in {"ready", "read_only"}
  /\ mp[p] = NoMountPoint
  /\ Update(p, [fs[p] EXCEPT !.has_custom_sqlitevfs_ = FALSE,
                             !.uuid_cache_ = FALSE,
                             !.has_nfs_maps_ = FALSE,
                             !.cache_mgr_ = "NULL",
                             !.released = Dtor_Releases(fs[p]),
                             !.pc = "dtor_unlink_lock"])
  /\ running_file' = IF fs[p].path_crash_guard_ THEN FALSE ELSE running_file
  /\ UNCHANGED <<env, cache, unit, mp, g_alive, n_alive, lock_file, flock_owner>>

\* FileSystem::~FileSystem lines 370-371: lock.<name> is unlinked if its path
\* is set.
Dtor_UnlinkLock(p) ==
  /\ fs[p].pc = "dtor_unlink_lock"
  /\ Update(p, [fs[p] EXCEPT
                  !.pc = "dtor_unlock",
                  !.released = IF fs[p].path_workspace_lock_
                                 THEN Append(@, "lock_file") ELSE @])
  /\ lock_file' = IF fs[p].path_workspace_lock_ THEN NoFile ELSE lock_file
  /\ UNCHANGED <<env, cache, unit, mp, g_alive, n_alive, flock_owner, running_file>>

\* A destructor that does not reset g_alive.
Dtor_UnlockFile_KeepsFlag(p) ==
  /\ fs[p].pc = "dtor_unlock"
  /\ flock_owner' = IF fs[p].fd_workspace_lock_ >= 0
                      THEN UnlockFile(fs[p].fd_workspace_lock_)
                      ELSE flock_owner
  /\ n_alive' = [n_alive EXCEPT ![p] = @ - 1]
  /\ Update(p, NoFileSystem("destroyed"))
  /\ UNCHANGED <<env, cache, unit, mp, g_alive, lock_file, running_file>>

\* FileSystem::~FileSystem lines 372-385: UnlockFile if the descriptor is
\* valid, shutdown of the globals, g_alive = false.
Dtor_UnlockFile(p) ==
  /\ fs[p].pc = "dtor_unlock"
  /\ flock_owner' = IF fs[p].fd_workspace_lock_ >= 0
                      THEN UnlockFile(fs[p].fd_workspace_lock_)
                      ELSE flock_owner
  /\ g_alive' = [g_alive EXCEPT ![p] = FALSE]
  /\ n_alive' = [n_alive EXCEPT ![p] = @ - 1]
  /\ Update(p, NoFileSystem("destroyed"))
  /\ UNCHANGED <<env, cache, unit, mp, lock_file, running_file>>

-----------------------------------------------------------------------------
\* The stages of MountPoint::Create as operators on the object's fields.

Built(m, members) == [m EXCEPT !.built = @ \cup members]

\* MountPoint::CreateStatistics, CreateAuthz and the BackoffThrottle of
\* MountPoint::Create lines 1039-1041; none of them can fail.
CreateAuthz(m0) ==
  LET m1 == Built(Ran(m0, "CreateStatistics"), {"statistics_"})
      m2 == Built(Ran(m1, "CreateAuthz"),
                  {"authz_fetcher_", "authz_session_mgr_", "authz_attachment_"})
  IN  Built(Ran(m2, "BackoffThrottle"), {"backoff_throttle_"})

\* MountPoint::CreateSignatureManager.
CreateSignatureManager(m0, fault) ==
  LET m == Built(Ran(m0, "CreateSignatureManager"), {"signature_mgr_"})
  IN  IF fault \in {"keys", "certs"}
        THEN Fail(m, "CreateSignatureManager", "kFailSignature")
        ELSE m

\* MountPoint::CheckBlacklists.
CheckBlacklists(m0, fault) ==
  LET m == Ran(m0, "CheckBlacklists")
  IN  IF fault = "blacklist" THEN Fail(m, "CheckBlacklists", "kFailSignature") ELSE m

\* MountPoint::SetupExternalDownloadMgr, the tail of CreateDownloadManagers.
SetupExternalDownloadMgr(m0, fault) ==
  LET m == Built(m0, {"external_download_mgr_"})
  IN  IF fault = "ext_proxies" THEN Fail(m, "CreateDownloadManagers", "kFailWpad") ELSE m

\* A CreateDownloadManagers that reports an empty proxy list as an options
\* failure.
CreateDownloadManagers_OptionsFailure(m0, fault) ==
  LET m == Built(Ran(m0, "CreateDownloadManagers"), {"download_mgr_"})
  IN  IF fault = "proxies" THEN Fail(m, "CreateDownloadManagers", "kFailOptions")
      ELSE SetupExternalDownloadMgr(m, fault)

\* MountPoint::CreateDownloadManagers.
CreateDownloadManagers(m0, fault) ==
  LET m == Built(Ran(m0, "CreateDownloadManagers"), {"download_mgr_"})
  IN  IF fault = "proxies" THEN Fail(m, "CreateDownloadManagers", "kFailWpad")
      ELSE SetupExternalDownloadMgr(m, fault)

\* MountPoint::CreateFetchers.
CreateFetchers(m0) ==
  Built(Ran(m0, "CreateFetchers"), {"fetcher_", "external_fetcher_"})

\* A CreateCatalogManager that does not look at CVMFS_AUTO_UPDATE.
CreateCatalogManager_AutoUpdateIgnored(m0, in) ==
  LET m == Built(Ran(m0, "CreateCatalogManager"), {"catalog_mgr_", "inode_annotation_"})
  IN  IF in.fault = "owner_maps" THEN Fail(m, "CreateCatalogManager", "kFailOptions")
      ELSE IF in.fault = "history" THEN Fail(m, "CreateCatalogManager", "kFailHistory")
      ELSE IF in.fault = "catalog"
        THEN Fail([m EXCEPT !.fixed_catalog_ = (in.root_hash = "hash")],
                  "CreateCatalogManager", "kFailCatalog")
      ELSE [m EXCEPT !.fixed_catalog_ = (in.root_hash = "hash")]

\* MountPoint::CreateCatalogManager with SetupInodeAnnotation, SetupOwnerMaps
\* and DetermineRootHash.
CreateCatalogManager(m0, in) ==
  LET m == Built(Ran(m0, "CreateCatalogManager"), {"catalog_mgr_", "inode_annotation_"})
  IN  IF in.fault = "owner_maps" THEN Fail(m, "CreateCatalogManager", "kFailOptions")
      ELSE IF in.fault = "history" THEN Fail(m, "CreateCatalogManager", "kFailHistory")
      ELSE IF in.fault = "catalog"
        THEN Fail([m EXCEPT !.fixed_catalog_ = (in.root_hash = "hash")],
                  "CreateCatalogManager", "kFailCatalog")
      ELSE [m EXCEPT !.fixed_catalog_ = (in.root_hash = "hash") \/ in.no_auto_update]

\* MountPoint::CreateTracer.
CreateTracer(m0, type, tracefile) ==
  LET m == Built(Ran(m0, "CreateTracer"), {"tracer_"})
  IN  IF tracefile /\ type # "kFsFuse"
        THEN Fail(m, "CreateTracer", "kFailOptions")
        ELSE m

\* A CreateTables that constructs nothing.
CreateTables_Nothing(m0, type) == Ran(m0, "CreateTables")

\* MountPoint::CreateTables.
CreateTables(m0, type) ==
  Built(Ran(m0, "CreateTables"),
        IF type # "kFsFuse"
          THEN {"md5path_cache_", "simple_chunk_tables_"}
          ELSE {"chunk_tables_", "inode_cache_", "path_cache_", "md5path_cache_",
                "inode_tracker_"})

\* A MountPoint::Create that goes on after a stage that failed.
Halted_Never(m) == FALSE

\* "if (!mountpoint->Create...()) return mountpoint.Release();" in
\* MountPoint::Create: the stage has failed and Create returns the object.
Halted(m) == m.failed_at # ""

\* A MountPoint::Create that re-evaluates the membership requirement and
\* creates the tables in front of the tracer.
MountPointCreate_TablesFirst(f, in) ==
  LET m1 == CreateSignatureManager(CreateAuthz(NewMountPoint), in.fault)
      m2 == IF Halted(m1) THEN m1 ELSE CheckBlacklists(m1, in.fault)
      m3 == IF Halted(m2) THEN m2 ELSE CreateDownloadManagers(m2, in.fault)
      m4 == IF Halted(m3) THEN m3 ELSE CreateCatalogManager(CreateFetchers(m3), in)
      m5 == IF Halted(m4) THEN m4
            ELSE CreateTracer(CreateTables(Ran(m4, "ReEvaluateAuthz"), f.type_),
                              f.type_, in.tracefile)
  IN  IF Halted(m5) THEN m5
      ELSE [Ran(m5, "SetupBehavior") EXCEPT !.boot_status_ = "kFailOk"]

\* MountPoint::Create lines 1039-1055 on the file system f with inputs in.
MountPointCreate(f, in) ==
  LET m1 == CreateSignatureManager(CreateAuthz(NewMountPoint), in.fault)
      m2 == IF Halted(m1) THEN m1 ELSE CheckBlacklists(m1, in.fault)
      m3 == IF Halted(m2) THEN m2 ELSE CreateDownloadManagers(m2, in.fault)
      m4 == IF Halted(m3) THEN m3 ELSE CreateCatalogManager(CreateFetchers(m3), in)
      m5 == IF Halted(m4) THEN m4 ELSE CreateTracer(m4, f.type_, in.tracefile)
  IN  IF Halted(m5) THEN m5
      ELSE [Ran(CreateTables(Ran(m5, "ReEvaluateAuthz"), f.type_), "SetupBehavior")
              EXCEPT !.boot_status_ = "kFailOk"]

\* Whether MountPoint::Create on f with inputs in reaches line 1146, which
\* dereferences file_system_->uuid_cache().
ReadsUuid(f, in) == in.fault \notin {"keys", "certs", "blacklist"}

\* MountPoint::Create on the FileSystem of process p, whatever its boot
\* status.  If the FileSystem has no uuid, line 1146 reads through a null
\* pointer: the process dies or goes on.
MountPoint_Create(p) ==
  /\ p \in env.mounts
  /\ fs[p].pc = "ready"
  /\ mp[p] = NoMountPoint
  /\ \E in \in MountInputs, dies \in (IF fs[p].uuid_cache_ THEN {FALSE} ELSE BOOLEAN) :
       IF ReadsUuid(fs[p], in) /\ dies
         THEN Abort(p)
         ELSE /\ mp' = [mp EXCEPT ![p] = MountPointCreate(fs[p], in)]
              /\ UNCHANGED <<env, cache, unit, fs, g_alive, n_alive, lock_file, flock_owner,
                             running_file>>

\* MountPoint::~MountPoint: every collaborator is deleted.
MountPoint_dtor(p) ==
  /\ mp[p] # NoMountPoint
  /\ mp' = [mp EXCEPT ![p] = NoMountPoint]
  /\ UNCHANGED <<env, cache, unit, fs, g_alive, n_alive, lock_file, flock_owner, running_file>>

-----------------------------------------------------------------------------
(***************************************************************************)
(* The cache manager factory: TriageCacheMgr, SetupCacheMgr and the        *)
(* Setup...CacheMgr methods behind it.  A configuration gives, for every   *)
(* instance name, the options CVMFS_CACHE_<name>_... and what the          *)
(* collaborators of that instance do.  The factory is a function of the    *)
(* configuration on a record st of the FileSystem fields it reads and      *)
(* writes (type_, boot_status_, boot_error_, constructed_instances_),      *)
(* extended by history fields: the objects alive on the heap, the calls    *)
(* made on collaborators, the failures reported, and the instances whose   *)
(* SetupCacheMgr call has not returned yet.                                *)
(***************************************************************************)

\* Quota limits in the option CVMFS_CACHE_QUOTA_LIMIT range over -1..MaxQuotaMB.
MaxQuotaMB == 2

\* An option for which OptionsManager::GetValue returns false.
NotDefined == "<undefined>"

kDefaultCacheMgrInstance == "default"

\* An instance name of 25 characters.
LongName == "abcdefghijklmnopqrstuvwxy"

\* The instance names a configuration mentions.
InstanceNames == {kDefaultCacheMgrInstance, "a", "b", "c", "x-y", LongName}

\* What CheckInstanceName looks at: the length of the name and whether the
\* sanitizer accepts every character (letters, digits, underscore).
InstanceShape(name) == [length |-> Len(name), sane |-> name # "x-y"]

\* "* 1024 * 1024" of the quota limit option.
MiB == 1024 * 1024

\* The quota limit of a fuse module without CVMFS_CACHE_QUOTA_LIMIT.
kDefaultQuotaLimit == 1024 * MiB

\* The options of one instance and the behaviour of its collaborators, here
\* with no option defined but the type and no collaborator failing.
\*   shared, alien, base_defined, dir_defined, locator: the option is defined
\*     (and on, for shared);
\*   in_workspace: the cache path is the workspace directory;
\*   create_fails: PosixCacheManager::Create returns NULL;
\*   quota_create_fails: PosixQuotaManager::Create(Shared) returns NULL;
\*   size, size_after: GetSize() and the size Cleanup leaves behind;
\*   plugin_invalid, ext_create_fails: the plugin handle is invalid,
\*     ExternalCacheManager::Create returns NULL;
\*   tiered_create_fails: TieredCacheManager::Create returns NULL.
Instance(type) ==
  [type                |-> type,
   upper               |-> NotDefined,
   lower               |-> NotDefined,
   malloc              |-> NotDefined,
   locator             |-> FALSE,
   shared              |-> FALSE,
   alien               |-> FALSE,
   quota_defined       |-> FALSE,
   quota_mb            |-> 0,
   base_defined        |-> FALSE,
   dir_defined         |-> FALSE,
   in_workspace        |-> TRUE,
   create_fails        |-> FALSE,
   quota_create_fails  |-> FALSE,
   size                |-> 0,
   size_after          |-> 0,
   plugin_invalid      |-> FALSE,
   ext_create_fails    |-> FALSE,
   tiered_create_fails |-> FALSE]

\* boot_error_ as the message and the instance name the message quotes.
NoError == [msg |-> "", instance |-> ""]

\* The FileSystem fields in front of TriageCacheMgr, and the empty history.
NewResolution(type) ==
  [type_                  |-> type,
   boot_status_           |-> "kFailUnknown",
   boot_error_            |-> NoError,
   constructed_instances_ |-> {},
   live                   |-> {},
   events                 |-> <<>>,
   failures               |-> <<>>,
   stack                  |-> <<>>,
   calls                  |-> 0,
   aborted                |-> FALSE]

\* A cache manager: its kind (CacheManager::id), its instance, whether it
\* has acquired a quota manager, and the managers it owns.
NullMgr == [id |-> "NULL", instance |-> "", quota |-> FALSE, children |-> <<>>]

CacheMgr(id, instance, quota, children) ==
  [id |-> id, instance |-> instance, quota |-> quota, children |-> children]

\* What a factory method returns: the manager and the FileSystem it leaves.
Ret(mgr, st) == [mgr |-> mgr, st |-> st]

\* The heap objects a cache manager owns, itself included.
RECURSIVE Owned(_)
Owned(mgr) ==
  IF mgr = NullMgr THEN {}
  ELSE {<<"cache", mgr.instance>>}
         \cup (IF mgr.quota THEN {<<"quota", mgr.instance>>} ELSE {})
         \cup UNION {Owned(mgr.children[i]) : i \in DOMAIN mgr.children}

\* A call on a collaborator, with its integer argument (0 if it has none).
Logged(st, op, kind, instance, arg) ==
  [st EXCEPT !.events = Append(@, [op |-> op, object |-> <<kind, instance>>, arg |-> arg])]

\* A collaborator's Create or a new expression returns an object.
Constructed(st, kind, instance) ==
  [Logged(st, "new", kind, instance, 0) EXCEPT !.live = @ \cup {<<kind, instance>>}]

\* An owner that gives nothing back.
Deleted_Leaks(st, kind, instance, objects) == st

\* delete, by hand or by the destructor of a UniquePtr: the object goes and
\* all it owns goes with it.
Deleted(st, kind, instance, objects) ==
  [Logged(st, "delete", kind, instance, 0) EXCEPT !.live = @ \ objects]

\* boot_error_ = ...; boot_status_ = ...; in front of a return NULL.
CacheFail(st, code, msg, instance) ==
  [st EXCEPT !.boot_status_ = code,
             !.boot_error_ = [msg |-> msg, instance |-> instance],
             !.failures = Append(@, [code |-> code, msg |-> msg,
                                     instance |-> instance, ancestors |-> st.stack])]

\* assert(...) fails: the process is gone.
CacheAbort(st) == [st EXCEPT !.aborted = TRUE]

\* FileSystem::DeterminePosixCacheSettings.
DeterminePosixCacheSettings(type, o) ==
  LET quota_limit == IF o.quota_defined THEN o.quota_mb * MiB
                     ELSE IF type = "kFsFuse" THEN kDefaultQuotaLimit
                     ELSE 0
  IN  [is_shared          |-> o.shared,
       is_alien           |-> o.alien,
       quota_limit        |-> quota_limit,
       is_managed         |-> quota_limit > 0,
       cache_base_defined |-> o.base_defined,
       cache_dir_defined  |-> o.dir_defined,
       in_workspace       |-> o.in_workspace]

\* A check that lets alien caches be shared and managed.
CheckPosixCacheSettings_AlienUnchecked(type, settings) ==
  IF type = "kFsLibrary" /\ (settings.is_shared \/ settings.is_managed)
    THEN "libcvmfs supports only unmanaged exclusive cache or alien cache"
  ELSE IF settings.cache_base_defined /\ settings.cache_dir_defined
    THEN "CVMFS_CACHE_BASE and CVMFS_CACHE_DIR are mutually exclusive"
  ELSE ""

\* A check without the rule for libcvmfs.
CheckPosixCacheSettings_LibraryUnchecked(type, settings) ==
  IF settings.is_alien /\ settings.is_shared
    THEN "shared local disk cache and alien cache mutually exclusive"
  ELSE IF settings.is_alien /\ settings.is_managed
    THEN "quota management and alien cache mutually exclusive"
  ELSE IF settings.cache_base_defined /\ settings.cache_dir_defined
    THEN "CVMFS_CACHE_BASE and CVMFS_CACHE_DIR are mutually exclusive"
  ELSE ""

\* FileSystem::CheckPosixCacheSettings: the message of the rule the settings
\* break, "" if they break none.  Every rule sets kFailOptions.
CheckPosixCacheSettings(type, settings) ==
  IF settings.is_alien /\ settings.is_shared
    THEN "shared local disk cache and alien cache mutually exclusive"
  ELSE IF settings.is_alien /\ settings.is_managed
    THEN "quota management and alien cache mutually exclusive"
  ELSE IF type = "kFsLibrary" /\ (settings.is_shared \/ settings.is_managed)
    THEN "libcvmfs supports only unmanaged exclusive cache or alien cache"
  ELSE IF settings.cache_base_defined /\ settings.cache_dir_defined
    THEN "CVMFS_CACHE_BASE and CVMFS_CACHE_DIR are mutually exclusive"
  ELSE ""

\* PosixQuotaManager::GetCapacity: the limit the manager was created with.
GetCapacity(settings) == settings.quota_limit

\* PosixQuotaManager::Cleanup(leave_size): true iff the cache is at or below
\* leave_size afterwards.
Cleanup(o, leave_size) == o.size_after <= leave_size

\* A quota threshold of the whole limit.
QuotaThreshold_Limit(settings) == settings.quota_limit

\* "int64_t quota_threshold = settings.quota_limit / 2" (operands >= 0).
QuotaThreshold(settings) == settings.quota_limit \div 2

\* FileSystem::SetupPosixQuotaMgr: whether it returns true, and the FileSystem.
SetupPosixQuotaMgr(settings, o, instance, st) ==
  LET quota_threshold == QuotaThreshold(settings)
      failed(s, msg) == [ok |-> FALSE, st |-> CacheFail(s, "kFailQuota", msg, "")]
      made == Constructed(st, "quota", instance)
      acquired(s) == [ok |-> TRUE, st |-> Logged(s, "AcquireQuotaManager", "quota", instance, 0)]
  IN  IF settings.quota_limit < 0 THEN [ok |-> FALSE, st |-> CacheAbort(st)]
      ELSE IF settings.is_shared /\ o.quota_create_fails
        THEN failed(st, "Failed to initialize shared lru cache")
      ELSE IF ~settings.is_shared /\ ~settings.in_workspace
        THEN [ok |-> FALSE, st |-> CacheAbort(st)]
      ELSE IF ~settings.is_shared /\ o.quota_create_fails
        THEN failed(st, "Failed to initialize lru cache")
      ELSE IF o.size > GetCapacity(settings)
        THEN LET cleaned == Logged(made, "Cleanup", "quota", instance, quota_threshold)
             IN  IF ~Cleanup(o, quota_threshold)
                   THEN failed(Deleted(cleaned, "quota", instance, {<<"quota", instance>>}),
                               "Failed to clean up cache")
                   ELSE acquired(cleaned)
      ELSE acquired(made)

\* FileSystem::SetupPosixCacheMgr.  CreateFile of the marker .cvmfscache is
\* logged; for an alien cache its failure is ignored.
SetupPosixCacheMgr(instance, o, st) ==
  LET settings == DeterminePosixCacheSettings(st.type_, o)
      broken == CheckPosixCacheSettings(st.type_, settings)
      made == Constructed(st, "cache", instance)
      marked == Logged(made, "CreateFile", "cache", instance, 0)
      quota == SetupPosixQuotaMgr(settings, o, instance, marked)
  IN  IF broken # "" THEN Ret(NullMgr, CacheFail(st, "kFailOptions", broken, ""))
      ELSE IF o.create_fails
        THEN Ret(NullMgr, CacheFail(st, "kFailCacheDir", "Failed to setup posix cache", instance))
      ELSE IF ~settings.is_managed THEN Ret(CacheMgr("posix", instance, FALSE, <<>>), marked)
      ELSE IF quota.st.aborted THEN Ret(NullMgr, quota.st)
      ELSE IF ~quota.ok
        THEN Ret(NullMgr, Deleted(quota.st, "cache", instance, {<<"cache", instance>>}))
      ELSE Ret(CacheMgr("posix", instance, TRUE, <<>>), quota.st)

\* FileSystem::SetupRamCacheMgr: the allocator option decides; the manager
\* acquires a NoopQuotaManager.
SetupRamCacheMgr(instance, o, st) ==
  IF o.malloc \notin {NotDefined, "libc", "heap"}
    THEN Ret(NullMgr, CacheFail(st, "kFailOptions", "Failure: unknown malloc", instance))
    ELSE Ret(CacheMgr("ram", instance, TRUE, <<>>),
             Logged(Constructed(Constructed(st, "cache", instance), "quota", instance),
                    "AcquireQuotaManager", "quota", instance, 0))

\* FileSystem::SetupExternalCacheMgr.  The plugin handle lives in a UniquePtr
\* of the method and goes when the method returns.
SetupExternalCacheMgr(instance, o, st) ==
  LET plugged == Constructed(st, "plugin", instance)
      unplugged(s) == Deleted(s, "plugin", instance, {<<"plugin", instance>>})
  IN  IF ~o.locator
        THEN Ret(NullMgr, CacheFail(st, "kFailCacheDir", "CVMFS_CACHE_LOCATOR missing", instance))
      ELSE IF o.plugin_invalid
        THEN Ret(NullMgr, unplugged(CacheFail(plugged, "kFailCacheDir", "plugin error", "")))
      ELSE IF o.ext_create_fails
        THEN Ret(NullMgr, unplugged(CacheFail(plugged, "kFailCacheDir",
                                              "failed to create external cache manager", instance)))
      ELSE Ret(CacheMgr("external", instance, TRUE, <<>>),
               unplugged(Logged(Constructed(Constructed(plugged, "cache", instance),
                                            "quota", instance),
                                "AcquireQuotaManager", "quota", instance, 0)))

\* A tiered level that reports a failure of its own when a child failed.
ChildFailed_Overwrites(st, instance) ==
  CacheFail(st, "kFailCacheDir", "Failed to setup tiered cache manager", instance)

\* "if (!upper.IsValid()) return NULL;" and the same for lower: the tiered
\* level returns with the FileSystem as the child left it.
ChildFailed(st, instance) == st

\* TieredCacheManager::Create returns NULL: it was handed both children and
\* gives them back to the heap.
TieredCreateFailed(st, upper, lower) ==
  Deleted(Deleted(st, "cache", upper.instance, Owned(upper)),
          "cache", lower.instance, Owned(lower))

\* A cycle check that returns NULL without a report.
CircularDefinition_Unreported(st, instance) == st

\* "boot_error_ = "circular cache definition: " + instance" with kFailCacheDir.
CircularDefinition(st, instance) ==
  CacheFail(st, "kFailCacheDir", "circular cache definition", instance)

RECURSIVE SetupCacheMgr(_, _, _)
RECURSIVE SetupTieredCacheMgr(_, _, _)

\* FileSystem::SetupTieredCacheMgr.  upper and lower are UniquePtrs: a return
\* deletes the child that was built.
SetupTieredCacheMgr(cfg, instance, st) ==
  LET o == cfg[instance]
      upper == SetupCacheMgr(cfg, o.upper, st)
      lower == SetupCacheMgr(cfg, o.lower, upper.st)
      drop_upper(s) == Deleted(s, "cache", upper.mgr.instance, Owned(upper.mgr))
  IN  IF o.upper = NotDefined
        THEN Ret(NullMgr, CacheFail(st, "kFailOptions", "CVMFS_CACHE_UPPER missing", instance))
      ELSE IF upper.st.aborted THEN Ret(NullMgr, upper.st)
      ELSE IF upper.mgr = NullMgr THEN Ret(NullMgr, ChildFailed(upper.st, instance))
      ELSE IF o.lower = NotDefined
        THEN Ret(NullMgr, drop_upper(CacheFail(upper.st, "kFailOptions",
                                               "CVMFS_CACHE_LOWER missing", instance)))
      ELSE IF lower.st.aborted THEN Ret(NullMgr, lower.st)
      ELSE IF lower.mgr = NullMgr
        THEN Ret(NullMgr, drop_upper(ChildFailed(lower.st, instance)))
      ELSE IF o.tiered_create_fails
        THEN Ret(NullMgr, CacheFail(TieredCreateFailed(lower.st, upper.mgr, lower.mgr),
                                    "kFailCacheDir", "Failed to setup tiered cache manager",
                                    instance))
      ELSE Ret(CacheMgr("tiered", instance, FALSE, <<upper.mgr, lower.mgr>>),
               Constructed(lower.st, "cache", instance))

\* FileSystem::SetupCacheMgr.
SetupCacheMgr(cfg, instance, st0) ==
  LET st == [st0 EXCEPT !.calls = @ + 1]
      entered == [st EXCEPT !.constructed_instances_ = @ \cup {instance},
                            !.stack = Append(@, instance)]
      instance_type ==
        IF instance = kDefaultCacheMgrInstance THEN "posix"
        ELSE IF cfg[instance].type = NotDefined THEN ""
        ELSE cfg[instance].type
      r == CASE instance_type = "posix" -> SetupPosixCacheMgr(instance, cfg[instance], entered)
             [] instance_type = "ram" -> SetupRamCacheMgr(instance, cfg[instance], entered)
             [] instance_type = "tiered" -> SetupTieredCacheMgr(cfg, instance, entered)
             [] instance_type = "external" -> SetupExternalCacheMgr(instance, cfg[instance], entered)
             [] OTHER -> Ret(NullMgr, CacheFail(entered, "kFailCacheDir",
                                                "invalid cache manager type", instance))
  IN  IF instance \in st.constructed_instances_
        THEN Ret(NullMgr, CircularDefinition(st, instance))
        ELSE Ret(r.mgr, [r.st EXCEPT !.stack = SubSeq(@, 1, Len(@) - 1)])

\* FileSystem::TriageCacheMgr with SetupCacheMgr spelled out.  primary is the
\* option CVMFS_CACHE_PRIMARY, NotDefined if it is unset or empty.
TriageCacheMgr_SetupCacheMgr(cfg, primary, st) ==
  LET chk == CheckInstanceName(InstanceShape(primary))
  IN  IF primary = NotDefined THEN SetupCacheMgr(cfg, kDefaultCacheMgrInstance, st)
      ELSE IF ~chk.ok
        THEN Ret(NullMgr, IF chk.sets = "" THEN st
                          ELSE CacheFail(st, chk.sets, "invalid instance name", primary))
      ELSE SetupCacheMgr(cfg, primary, st)

\* TriageCacheMgr runs on the configuration.
Cache_TriageCacheMgr ==
  /\ cache.pc = "TriageCacheMgr"
  /\ LET r == TriageCacheMgr_SetupCacheMgr(cache.cfg, cache.primary, cache.st)
     IN  cache' = [cache EXCEPT !.pc = IF r.st.aborted THEN "aborted" ELSE "resolved",
                                !.cache_mgr_ = r.mgr,
                                !.st = r.st]
  /\ UNCHANGED <<env, unit, fs, g_alive, n_alive, lock_file, flock_owner, running_file, mp>>

\* "delete cache_mgr_" of ~FileSystem.
Cache_dtor ==
  /\ cache.pc = "resolved"
  /\ cache' = [cache EXCEPT !.pc = "destroyed",
                            !.cache_mgr_ = NullMgr,
                            !.st = IF cache.cache_mgr_ = NullMgr THEN @
                                   ELSE Deleted(@, "cache", cache.cache_mgr_.instance,
                                                Owned(cache.cache_mgr_))]
  /\ UNCHANGED <<env, unit, fs, g_alive, n_alive, lock_file, flock_owner, running_file, mp>>

-----------------------------------------------------------------------------
\* Root hash resolution of MountPoint::CreateCatalogManager.

\* Largest time stamp, in seconds since the epoch, of a tag or a date.
MaxTime == 4

\* The value of a hexadecimal digit.
HexValue(c) == CASE c = "0" -> 0 [] c = "1" -> 1 [] c = "a" -> 10 [] c = "f" -> 15

\* shash::MkFromHexPtr: the hash whose digest has the written nibbles.
MkFromHexPtr(hex, suffix) ==
  [digest |-> [i \in DOMAIN hex |-> HexValue(hex[i])], suffix |-> suffix]

\* shash::Any::SetNull on a default constructed hash and shash::Any::IsNull:
\* a hash is null when every byte of its digest is zero.
NullHash == [digest |-> <<0, 0>>, suffix |-> ""]
IsNull(hash) == \A i \in DOMAIN hash.digest : hash.digest[i] = 0

\* OptionsManager::IsOn.
IsOn(value) == value \in {"YES", "yes", "ON", "on", "1", "TRUE", "true"}

\* OptionsManager::IsDefined and GetValue on the options o: o.defined names
\* the parameters that are set, o[name] is the value of a set one.
IsDefined(o, name) == name \in o.defined

\* A CVMFS_REPOSITORY_DATE text: well formed as YYYY-MM-DDTHH:MM:SSZ or not,
\* and the instant it writes.  IsoTimestamp2UtcTime gives the seconds since
\* the epoch of a well formed text and 0 for any other.
DateTexts == [wellformed : {TRUE}, utc : 0..MaxTime] \cup {[wellformed |-> FALSE, utc |-> 0]}
IsoTimestamp2UtcTime(text) == IF text.wellformed THEN text.utc ELSE 0

\* history::History::Tag.
Tag(name, timestamp, hex) ==
  [name |-> name, timestamp |-> timestamp,
   root_hash |-> MkFromHexPtr(hex, "C")]

\* history::History::GetByName: the tags with exactly this name (none or one).
GetByName(tag_db, name) == {t \in tag_db : t.name = name}

\* A GetByDate that answers with the oldest tag not after the instant.
GetByDate_Oldest(tag_db, utctime) ==
  {t \in tag_db : /\ t.timestamp <= utctime
                  /\ \A u \in tag_db : u.timestamp <= utctime => t.timestamp <= u.timestamp}

\* history::History::GetByDate: the tags the query may answer with, those of
\* the latest time stamp that is not after the instant.
GetByDate(tag_db, utctime) ==
  {t \in tag_db : /\ t.timestamp <= utctime
                  /\ \A u \in tag_db : u.timestamp <= utctime => u.timestamp <= t.timestamp}

\* What DetermineRootHash hands back: its return value, *root_hash, and the
\* members boot_status_ and repository_tag_; calls is the history of the
\* calls it made to the network, the tag database and the date parser.
RootHash(ok, hash, status, tag) ==
  [ok |-> ok, root_hash |-> hash, boot_status_ |-> status, repository_tag_ |-> tag,
   calls |-> <<>>]

\* The outcomes with the calls that led to them.
Called(outcomes, calls) == {[r EXCEPT !.calls = calls] : r \in outcomes}

\* MountPoint::FetchHistory: the failure met on the way to the tag database.
FetchHistory(history) ==
  history.fault \in {"none", "open"}

\* The calls of MountPoint::FetchHistory: the manifest is fetched, and the
\* history database when the manifest came and names one.
FetchHistoryCalls(history) ==
  <<"manifest::Fetch">>
  \o (IF history.fault \in {"manifest", "no history"} THEN <<>> ELSE <<"Fetcher::Fetch">>)

\* A DetermineRootHash that looks a tag up only when no date is set.
ByTag_UnlessDate(o) ==
  IsDefined(o, "CVMFS_REPOSITORY_TAG") /\ ~IsDefined(o, "CVMFS_REPOSITORY_DATE")

\* options_mgr_->GetValue("CVMFS_REPOSITORY_TAG", &repository_tag_) of
\* DetermineRootHash: the tag is looked up by name, else by date.
ByTag(o) == IsDefined(o, "CVMFS_REPOSITORY_TAG")

\* MountPoint::DetermineRootHash for the options o and the history of the
\* repository: the set of its possible outcomes (one, but for tags of equal
\* time stamp).  root_hash is NullHash where the code leaves it untouched.
DetermineRootHash(o, history) ==
  LET opened == FetchHistoryCalls(history) \o <<"SqliteHistory::Open">>
  IN
  IF IsDefined(o, "CVMFS_ROOT_HASH")
    THEN {RootHash(TRUE, MkFromHexPtr(o.CVMFS_ROOT_HASH, "C"), "kFailUnknown", "")}
  ELSE IF ~IsDefined(o, "CVMFS_REPOSITORY_TAG") /\ ~IsDefined(o, "CVMFS_REPOSITORY_DATE")
    THEN {RootHash(TRUE, NullHash, "kFailUnknown", "")}
  ELSE IF ~FetchHistory(history)
    THEN Called({RootHash(FALSE, NullHash, "kFailHistory", "")}, FetchHistoryCalls(history))
  ELSE IF history.fault = "open"
    THEN Called({RootHash(FALSE, NullHash, "kFailHistory", "")}, opened)
  ELSE IF ~ByTag(o)
    THEN LET repository_utctime == IsoTimestamp2UtcTime(o.CVMFS_REPOSITORY_DATE)
             found == GetByDate(history.tag_db, repository_utctime)
             parsed == opened \o <<"IsoTimestamp2UtcTime">>
         IN  IF repository_utctime = 0
               THEN Called({RootHash(FALSE, NullHash, "kFailHistory", "")}, parsed)
             ELSE IF found = {}
               THEN Called({RootHash(FALSE, NullHash, "kFailHistory", "")},
                           parsed \o <<"GetByDate">>)
             ELSE Called({RootHash(TRUE, tag.root_hash, "kFailUnknown", tag.name) :
                            tag \in found}, parsed \o <<"GetByDate">>)
  ELSE LET found == GetByName(history.tag_db, o.CVMFS_REPOSITORY_TAG)
       IN  IF found = {}
             THEN Called({RootHash(FALSE, NullHash, "kFailHistory", o.CVMFS_REPOSITORY_TAG)},
                         opened \o <<"GetByName">>)
             ELSE Called({RootHash(TRUE, tag.root_hash, "kFailUnknown", tag.name) :
                            tag \in found}, opened \o <<"GetByName">>)

\* What MountPoint::CreateCatalogManager sees of the resolution r, of the
\* option CVMFS_AUTO_UPDATE and of the catalog.
CatalogInputs(o, r, init_fails) ==
  [fault |-> IF ~r.ok THEN "history" ELSE IF init_fails THEN "catalog" ELSE "none",
   root_hash |-> IF IsNull(r.root_hash) THEN "null" ELSE "hash",
   no_auto_update |-> IsDefined(o, "CVMFS_AUTO_UPDATE") /\ ~IsOn(o.CVMFS_AUTO_UPDATE),
   tracefile |-> FALSE]

\* MountPoint::Create on a FileSystem that booted, for the options and the
\* repository of the run.
Root_Create ==
  /\ unit.pc = "root options"
  /\ \E r \in DetermineRootHash(unit.options, unit.history), init_fails \in BOOLEAN :
       unit' = [unit EXCEPT
                  !.pc = "mounted",
                  !.resolved = r,
                  !.mp = MountPointCreate(unit.file_system,
                                          CatalogInputs(unit.options, r, init_fails))]
  /\ UNCHANGED <<env, cache, fs, g_alive, n_alive, lock_file, flock_owner, running_file, mp>>

\* MountPoint::~MountPoint of the run.
Root_dtor ==
  /\ unit.pc = "mounted"
  /\ unit' = [unit EXCEPT !.pc = "unmounted", !.mp = NoMountPoint]
  /\ UNCHANGED <<env, cache, fs, g_alive, n_alive, lock_file, flock_owner, running_file, mp>>

-----------------------------------------------------------------------------
\* Workspace and cache directory of the default posix cache.

\* FileSystem::kDefaultCacheBase.
kDefaultCacheBase == "/var/lib/cvmfs"

\* MakeCanonicalPath: the path without its trailing slash.
MakeCanonicalPath(path) ==
  CASE path = "/b/" -> "/b"
    [] OTHER -> path

\* generic_parameter.substr(12) of MkCacheParm.
Substr12(generic_parameter) ==
  CASE generic_parameter = "CVMFS_CACHE_SHARED" -> "SHARED"
    [] generic_parameter = "CVMFS_CACHE_ALIEN" -> "ALIEN"
    [] generic_parameter = "CVMFS_CACHE_SERVER_MODE" -> "SERVER_MODE"
    [] generic_parameter = "CVMFS_CACHE_QUOTA_LIMIT" -> "QUOTA_LIMIT"
    [] generic_parameter = "CVMFS_CACHE_BASE" -> "BASE"
    [] generic_parameter = "CVMFS_CACHE_DIR" -> "DIR"

\* FileSystem::MkCacheParm: the name under which the options o hold a cache
\* parameter of the instance.
MkCacheParm(generic_parameter, instance, o) ==
  IF instance = kDefaultCacheMgrInstance
    THEN IF generic_parameter = "CVMFS_CACHE_SHARED" /\ ~IsDefined(o, generic_parameter)
           THEN "CVMFS_SHARED_CACHE"
         ELSE IF generic_parameter = "CVMFS_CACHE_ALIEN" /\ ~IsDefined(o, generic_parameter)
           THEN "CVMFS_ALIEN_CACHE"
         ELSE IF generic_parameter = "CVMFS_CACHE_SERVER_MODE"
                 /\ ~IsDefined(o, generic_parameter)
           THEN "CVMFS_SERVER_CACHE_MODE"
         ELSE IF generic_parameter = "CVMFS_CACHE_QUOTA_LIMIT"
                 /\ ~IsDefined(o, generic_parameter)
           THEN "CVMFS_QUOTA_LIMIT"
         ELSE generic_parameter
    ELSE "CVMFS_CACHE_" \o instance \o "_" \o Substr12(generic_parameter)

\* FileSystem::SetupWorkspace lines 895-914: workspace_ for the options o of
\* the repository name, and whether CVMFS_CACHE_DIR meets CVMFS_CACHE_BASE.
WorkspacePath(o, name) ==
  LET base == IF IsDefined(o, "CVMFS_CACHE_BASE")
                THEN MakeCanonicalPath(o.CVMFS_CACHE_BASE)
                ELSE kDefaultCacheBase
      suffixed == IF IsDefined(o, "CVMFS_SHARED_CACHE") /\ IsOn(o.CVMFS_SHARED_CACHE)
                    THEN base \o "/shared"
                    ELSE base \o "/" \o name
      dir == IF IsDefined(o, "CVMFS_CACHE_DIR") THEN o.CVMFS_CACHE_DIR ELSE suffixed
  IN  [conflict |-> IsDefined(o, "CVMFS_CACHE_DIR") /\ IsDefined(o, "CVMFS_CACHE_BASE"),
       workspace_ |-> IF IsDefined(o, "CVMFS_WORKSPACE") THEN o.CVMFS_WORKSPACE ELSE dir]

\* FileSystem::DeterminePosixCacheSettings lines 229-233: is_shared.
IsShared(o, instance) ==
  LET parm == MkCacheParm("CVMFS_CACHE_SHARED", instance, o)
  IN  IsDefined(o, parm) /\ IsOn(o[parm])

\* FileSystem::DeterminePosixCacheSettings lines 251-277: cache_path.
CachePath(o, instance, name, workspace_fullpath_) ==
  LET base_parm == MkCacheParm("CVMFS_CACHE_BASE", instance, o)
      dir_parm == MkCacheParm("CVMFS_CACHE_DIR", instance, o)
      alien_parm == MkCacheParm("CVMFS_CACHE_ALIEN", instance, o)
      base == IF IsDefined(o, base_parm) THEN MakeCanonicalPath(o[base_parm])
              ELSE kDefaultCacheBase
      suffixed == IF IsShared(o, instance) THEN base \o "/shared" ELSE base \o "/" \o name
      dir == IF IsDefined(o, dir_parm) THEN o[dir_parm] ELSE suffixed
      cache_path == IF IsDefined(o, alien_parm) THEN o[alien_parm] ELSE dir
  IN  IF cache_path = workspace_fullpath_ THEN "." ELSE cache_path

\* The options of a posix instance as FileSystem::DeterminePosixCacheSettings
\* reads them from the options o.
PosixInstance(o, instance, name, workspace_fullpath_) ==
  LET quota_parm == MkCacheParm("CVMFS_CACHE_QUOTA_LIMIT", instance, o)
  IN  [Instance("posix") EXCEPT
         !.shared = IsShared(o, instance),
         !.alien = IsDefined(o, MkCacheParm("CVMFS_CACHE_ALIEN", instance, o)),
         !.quota_defined = IsDefined(o, quota_parm),
         !.quota_mb = IF IsDefined(o, quota_parm) THEN o[quota_parm] ELSE 0,
         !.base_defined = IsDefined(o, MkCacheParm("CVMFS_CACHE_BASE", instance, o)),
         !.dir_defined = IsDefined(o, MkCacheParm("CVMFS_CACHE_DIR", instance, o)),
         !.in_workspace = CachePath(o, instance, name, workspace_fullpath_) = "."]

\* FileSystem::Create up to SetupWorkspace for the options of the run.
Ws_SetupWorkspace ==
  /\ unit.pc = "workspace options"
  /\ LET path == WorkspacePath(unit.options, unit.name)
         nfs == DetermineNfsMode(NewFileSystem(TRUE, unit.type), unit.nfs_mode)
         r == IF nfs.failed_at = "" THEN SetupWorkspace(nfs, path.conflict, FALSE) ELSE nfs
     IN  unit' = [unit EXCEPT
                    !.pc = IF r.failed_at = "" THEN "workspace" ELSE "failed",
                    !.file_system = r,
                    !.workspace_ = IF path.conflict THEN "" ELSE path.workspace_]
  /\ UNCHANGED <<env, cache, fs, g_alive, n_alive, lock_file, flock_owner, running_file, mp>>

\* FileSystem::TriageCacheMgr of the run: the default posix cache manager.
Ws_TriageCacheMgr ==
  /\ unit.pc = "workspace"
  /\ \E create_fails \in BOOLEAN :
       LET instance == kDefaultCacheMgrInstance
           o == [PosixInstance(unit.options, instance, unit.name, unit.workspace_)
                   EXCEPT !.create_fails = create_fails]
           r == SetupPosixCacheMgr(instance, o, NewResolution(unit.type))
       IN  unit' = [unit EXCEPT
                      !.pc = IF r.st.aborted THEN "aborted" ELSE "cache",
                      !.assertion = IF r.st.aborted THEN "SetupPosixQuotaMgr" ELSE "",
                      !.settings = DeterminePosixCacheSettings(unit.type, o),
                      !.cache_path = CachePath(unit.options, instance, unit.name,
                                               unit.workspace_),
                      !.cache_mgr_ = r.mgr,
                      !.st = r.st]
  /\ UNCHANGED <<env, cache, fs, g_alive, n_alive, lock_file, flock_owner, running_file, mp>>

-----------------------------------------------------------------------------
\* One posix cache directory over several boots.

\* Largest number of boots of one run.
MaxBoots == 4

\* The cache directory with nothing of the NFS maps in it.
WipedCache == [no_nfs_maps |-> FALSE, nfs_maps |-> FALSE]

\* FileSystem::SetupNfsMaps lines 756-786, what it leaves in the cache
\* directory dir: the file no_nfs_maps.<name> of a boot without NFS maps and
\* the directory nfs_maps.<name> of a boot with them.
NfsSentinels(r, dir, mkdir_fails) ==
  IF r.type_ = "kFsLibrary" \/ r.cache_mgr_ # "posix" THEN dir
  ELSE IF ~IsNfsSource(r) THEN [dir EXCEPT !.no_nfs_maps = TRUE]
  ELSE IF dir.no_nfs_maps \/ mkdir_fails THEN dir
  ELSE [dir EXCEPT !.nfs_maps = TRUE]

\* FileSystem::Create of a fuse module with a posix cache manager, up to
\* SetupUuid.
BootedToUuid(mode) ==
  SetupUuid(TriageCacheMgr(SetupWorkspace(DetermineNfsMode(NewFileSystem(TRUE, "kFsFuse"),
                                                           mode),
                                          FALSE, FALSE),
                           [length |-> 0, sane |-> TRUE], "posix"))

\* The modes whose boot reached kFailOk since the cache was last wiped.
UsedModes(boots) ==
  {IF boots[i].nfs_source THEN "NFS" ELSE "non-NFS" :
     i \in {j \in DOMAIN boots : boots[j].boot_status_ = "kFailOk"}}

\* FileSystem::Create on the cache directory of the run, in any NFS mode.
Nfs_Create ==
  /\ unit.pc = "cache directory"
  /\ Len(unit.boots) < MaxBoots
  /\ \E mode \in {"kNfsNone", "kNfsMaps", "kNfsMapsHa"}, mkdir_fails, init_fails \in BOOLEAN :
       LET r0 == BootedToUuid(mode)
           r1 == SetupNfsMaps(r0, unit.cache_dir.no_nfs_maps, mkdir_fails, init_fails)
           r2 == IF Returned(r1) THEN r1 ELSE RegisterVfsRdOnly(r1)
       IN  unit' = [unit EXCEPT
                      !.pc = "file system",
                      !.file_system = r2,
                      !.cache_dir = NfsSentinels(r0, @, mkdir_fails),
                      !.boots = Append(@, [nfs_source |-> IsNfsSource(r0),
                                           used_before |-> UsedModes(unit.boots),
                                           boot_status_ |-> r2.boot_status_])]
  /\ UNCHANGED <<env, cache, fs, g_alive, n_alive, lock_file, flock_owner, running_file, mp>>

\* FileSystem::~FileSystem of the run: the cache directory stays as it is.
Nfs_dtor ==
  /\ unit.pc = "file system"
  /\ unit' = [unit EXCEPT !.pc = "cache directory", !.file_system = NoFileSystem("none")]
  /\ UNCHANGED <<env, cache, fs, g_alive, n_alive, lock_file, flock_owner, running_file, mp>>

\* The administrator wipes the cache directory between two boots.
Nfs_Wipe ==
  /\ unit.pc = "cache directory"
  /\ unit.cache_dir # WipedCache
  /\ unit' = [unit EXCEPT !.cache_dir = WipedCache, !.boots = <<>>]
  /\ UNCHANGED <<env, cache, fs, g_alive, n_alive, lock_file, flock_owner, running_file, mp>>

-----------------------------------------------------------------------------
\* FileSystem::TearDown2ReadOnly: the crash guard is unlinked and the
\* FileSystem lives on with a read-only cache until it is destroyed.
TearDown2ReadOnly(p) ==
  /\ fs[p].pc = "ready"
  /\ fs[p].boot_status_ = "kFailOk"
  /\ mp[p] = NoMountPoint
  /\ Update(p, [fs[p] EXCEPT !.pc = "read_only"])
  /\ running_file' = IF fs[p].path_crash_guard_ THEN FALSE ELSE running_file
  /\ UNCHANGED <<env, cache, unit, mp, g_alive, n_alive, lock_file, flock_owner>>

\* The process of a FileSystem with a read-only cache dies.
Crash_ReadOnly(p) ==
  /\ fs[p].pc = "read_only"
  /\ Abort(p)

-----------------------------------------------------------------------------
\* max_ttl_sec_ of a MountPoint and the threads that call its accessors.

\* Number of threads that call the accessors of one MountPoint.
NThreads == 2
Threads == 1..NThreads

\* Largest TTL in minutes that a caller or CVMFS_MAX_TTL sets.
MaxTtlMn == 2

\* MountPoint::kDefaultMaxTtlSec, the value the constructor stores.
kDefaultMaxTtlSec == 0

\* What a load that races with a store may see besides a stored value.
Torn == -1

\* The TTL in seconds the catalog manager reports.
CatalogTtls == {90}

\* The accessors and their arguments: minutes for SetMaxTtlMn, the value of
\* CVMFS_MAX_TTL for SetupBehavior (-1: not defined).
TtlCalls ==
  [op : {"SetMaxTtlMn"}, arg : 0..MaxTtlMn]
  \cup [op : {"SetupBehavior"}, arg : {-1, MaxTtlMn}]
  \cup [op : {"GetMaxTtlMn", "GetEffectiveTtlSec"}, arg : {0}]

\* A thread outside the accessors; ret is what its last call returned.
IdleThread == [pc |-> "idle", op |-> "", arg |-> 0, local |-> 0, ret |-> 0]

\* A mutex that never makes a caller wait.
MutexFree_Always(mutex) == TRUE

\* pthread_mutex_lock returns at once only on a mutex that nobody holds.
MutexFree(mutex) == mutex = 0

\* std::min.
Min(a, b) == IF a < b THEN a ELSE b

\* Thread t of the run and the run with thread t changed.
Thread(t) == unit.thread[t]
WithThread(t, rec) == [unit EXCEPT !.thread[t] = rec]

\* A thread calls SetMaxTtlMn, SetupBehavior, GetMaxTtlMn or
\* GetEffectiveTtlSec.  SetupBehavior without CVMFS_MAX_TTL returns at once.
Ttl_Call(t) ==
  /\ unit.pc = "ttl" /\ Thread(t).pc = "idle"
  /\ \E call \in TtlCalls :
       unit' = WithThread(t, [IdleThread EXCEPT
                  !.pc = IF call.op = "SetupBehavior" /\ call.arg < 0 THEN "idle" ELSE "lock",
                  !.op = call.op,
                  !.arg = call.arg])
  /\ UNCHANGED <<env, cache, fs, g_alive, n_alive, lock_file, flock_owner, running_file, mp>>

\* MutexLockGuard lock_guard(lock_max_ttl_): the constructor locks.
Ttl_Lock(t) ==
  /\ unit.pc = "ttl" /\ Thread(t).pc = "lock"
  /\ MutexFree(unit.lock_max_ttl_)
  /\ unit' = [WithThread(t, [Thread(t) EXCEPT
                !.pc = IF Thread(t).op \in {"SetMaxTtlMn", "SetupBehavior"} THEN "store"
                       ELSE "load"])
              EXCEPT !.lock_max_ttl_ = t]
  /\ UNCHANGED <<env, cache, fs, g_alive, n_alive, lock_file, flock_owner, running_file, mp>>

\* max_ttl_sec_ = value_minutes * 60, line 1505: the store begins ...
Ttl_StoreBegin(t) ==
  /\ unit.pc = "ttl" /\ Thread(t).pc = "store"
  /\ unit' = [WithThread(t, [Thread(t) EXCEPT !.pc = "storing"])
              EXCEPT !.storing = @ \cup {t}]
  /\ UNCHANGED <<env, cache, fs, g_alive, n_alive, lock_file, flock_owner, running_file, mp>>

\* ... and ends.  Two stores at once leave either value or neither.
Ttl_StoreEnd(t) ==
  /\ unit.pc = "ttl" /\ Thread(t).pc = "storing"
  /\ \E seen \in IF unit.storing = {t} THEN {Thread(t).arg * 60}
                 ELSE {Thread(t).arg * 60, unit.max_ttl_sec_, Torn} :
       unit' = [WithThread(t, [Thread(t) EXCEPT !.pc = "unlock", !.arg = 0])
                EXCEPT !.storing = @ \ {t},
                       !.max_ttl_sec_ = seen,
                       !.written = IF unit.storing = {t} THEN @ \cup {seen} ELSE @]
  /\ UNCHANGED <<env, cache, fs, g_alive, n_alive, lock_file, flock_owner, running_file, mp>>

\* max_ttl = max_ttl_sec_ (line 1399) and max_ttl_sec_ / 60 (line 1409): a
\* load next to a store in progress may see anything.
Ttl_Load(t) ==
  /\ unit.pc = "ttl" /\ Thread(t).pc = "load"
  /\ \E seen \in IF unit.storing = {} THEN {unit.max_ttl_sec_}
                 ELSE {unit.max_ttl_sec_, Torn} \cup {m * 60 : m \in 0..MaxTtlMn} :
       unit' = WithThread(t, [Thread(t) EXCEPT !.pc = "unlock", !.local = seen])
  /\ UNCHANGED <<env, cache, fs, g_alive, n_alive, lock_file, flock_owner, running_file, mp>>

\* The destructor of the lock guard unlocks.  SetMaxTtlMn and GetMaxTtlMn
\* return; GetEffectiveTtlSec goes on to ask the catalog manager.
Ttl_Unlock(t) ==
  /\ unit.pc = "ttl" /\ Thread(t).pc = "unlock"
  /\ unit' = [WithThread(t, [Thread(t) EXCEPT
                !.pc = IF Thread(t).op = "GetEffectiveTtlSec" THEN "GetTTL" ELSE "idle",
                !.ret = IF Thread(t).op = "GetMaxTtlMn" THEN Thread(t).local \div 60 ELSE 0])
              EXCEPT !.lock_max_ttl_ = IF @ = t THEN 0 ELSE @]
  /\ UNCHANGED <<env, cache, fs, g_alive, n_alive, lock_file, flock_owner, running_file, mp>>

\* GetEffectiveTtlSec lines 1401-1403.
Ttl_GetTTL(t) ==
  /\ unit.pc = "ttl" /\ Thread(t).pc = "GetTTL"
  /\ \E catalog_ttl_sec \in CatalogTtls :
       unit' = WithThread(t, [Thread(t) EXCEPT
                 !.pc = "idle",
                 !.ret = IF Thread(t).local # 0 THEN Min(Thread(t).local, catalog_ttl_sec)
                         ELSE catalog_ttl_sec])
  /\ UNCHANGED <<env, cache, fs, g_alive, n_alive, lock_file, flock_owner, running_file, mp>>

-----------------------------------------------------------------------------
\* MountPoint::~MountPoint, statement by statement.

\* What the constructor of MountPoint makes before Create runs: the uuid and
\* the mutex of the maximum TTL.
CtorMembers == {"uuid_", "lock_max_ttl_"}

\* The collaborators a member was handed when it was constructed: the
\* session manager gets the authz fetcher and the statistics, the attachment
\* the session manager, the download managers the statistics and the
\* attachment, the fetchers their download manager, the backoff throttle and
\* the statistics, the catalog manager the fetcher, the signature manager,
\* the statistics and, on a fuse file system, the inode annotation, the
\* lookup caches the statistics.
ConstructedWith(member, type) ==
  CASE member = "authz_session_mgr_" -> {"authz_fetcher_", "statistics_"}
    [] member = "authz_attachment_" -> {"authz_session_mgr_"}
    [] member = "download_mgr_" -> {"statistics_", "authz_attachment_"}
    [] member = "external_download_mgr_" -> {"statistics_", "authz_attachment_"}
    [] member = "fetcher_" -> {"download_mgr_", "backoff_throttle_", "statistics_"}
    [] member = "external_fetcher_" ->
         {"external_download_mgr_", "backoff_throttle_", "statistics_"}
    [] member = "catalog_mgr_" ->
         {"fetcher_", "signature_mgr_", "statistics_"}
         \cup (IF type = "kFsFuse" THEN {"inode_annotation_"} ELSE {})
    [] member \in {"md5path_cache_", "inode_cache_", "path_cache_"} -> {"statistics_"}
    [] OTHER -> {}

\* A destructor that deletes the statistics and the download managers in
\* front of their users.
DeleteOrder_StatisticsFirst ==
  <<"lock_max_ttl_", "statistics_", "inode_tracker_", "tracer_", "md5path_cache_",
    "path_cache_", "inode_cache_", "simple_chunk_tables_", "chunk_tables_",
    "download_mgr_", "external_download_mgr_", "catalog_mgr_", "inode_annotation_",
    "external_fetcher_", "fetcher_", "signature_mgr_", "backoff_throttle_",
    "authz_attachment_", "authz_session_mgr_", "authz_fetcher_", "uuid_">>

\* The statements of ~MountPoint in the order of the source.
DeleteOrder ==
  <<"lock_max_ttl_", "inode_tracker_", "tracer_", "md5path_cache_", "path_cache_",
    "inode_cache_", "simple_chunk_tables_", "chunk_tables_", "catalog_mgr_",
    "inode_annotation_", "external_fetcher_", "fetcher_", "external_download_mgr_",
    "download_mgr_", "signature_mgr_", "backoff_throttle_", "authz_attachment_",
    "authz_session_mgr_", "authz_fetcher_", "statistics_", "uuid_">>

\* The members whose Fini() the destructor calls in front of the delete,
\* inside "if (member != NULL)".
FiniMembers == {"external_download_mgr_", "download_mgr_", "signature_mgr_"}

\* One statement of the destructor on the member: Fini() uses the member and
\* what it was constructed with and runs for a member that exists only;
\* "delete" of a NULL member does nothing.
Delete(u, member) ==
  IF member \in u.alive
    THEN [u EXCEPT !.alive = @ \ {member},
                   !.deleted = Append(@, member),
                   !.finished = IF member \in FiniMembers THEN @ \cup {member} ELSE @,
                   !.dangling = @ \cup (IF member \in FiniMembers
                                          THEN ConstructedWith(member, u.type) \ u.alive
                                          ELSE {})]
    ELSE u

\* MountPoint::Create on a FileSystem that booted: the object is returned
\* whatever stage stopped it.
Dtor_Create ==
  /\ unit.pc = "new"
  /\ LET m == MountPointCreate(unit.file_system, unit.in)
     IN  unit' = [unit EXCEPT !.pc = "created", !.mp = m,
                              !.alive = m.built \cup CtorMembers]
  /\ UNCHANGED <<env, cache, fs, g_alive, n_alive, lock_file, flock_owner, running_file, mp>>

\* The next statement of ~MountPoint.
Dtor_Statement ==
  /\ unit.pc \in {"created", "destroying"}
  /\ unit.next <= Len(DeleteOrder)
  /\ unit' = [Delete(unit, DeleteOrder[unit.next]) EXCEPT
                !.pc = IF unit.next = Len(DeleteOrder) THEN "destroyed" ELSE "destroying",
                !.next = @ + 1]
  /\ UNCHANGED <<env, cache, fs, g_alive, n_alive, lock_file, flock_owner, running_file, mp>>

-----------------------------------------------------------------------------
\* The byte budget of FileSystem::SetupRamCacheMgr.  A number is a sequence
\* of bytes, lowest byte first and without leading zero bytes, so that the
\* 64 bit arithmetic of the code and the arithmetic without a width can both
\* be computed; uint64_t keeps the lowest eight bytes.

\* Values of a byte.
Base == 256

\* Bytes of a uint64_t.
Width == 8

\* The number without its zero bytes at the high end.
RECURSIVE Norm(_)
Norm(x) ==
  IF x = <<>> THEN <<>>
  ELSE IF x[Len(x)] = 0 THEN Norm(SubSeq(x, 1, Len(x) - 1))
  ELSE x

\* The bytes of a number below 2^31.
RECURSIVE FromSmall(_)
FromSmall(n) == IF n = 0 THEN <<>> ELSE <<n % Base>> \o FromSmall(n \div Base)

\* x + y + carry.
RECURSIVE NatAdd(_, _, _)
NatAdd(x, y, carry) ==
  IF x = <<>> /\ y = <<>> THEN FromSmall(carry)
  ELSE LET a == IF x = <<>> THEN 0 ELSE Head(x)
           b == IF y = <<>> THEN 0 ELSE Head(y)
           s == a + b + carry
       IN  <<s % Base>> \o NatAdd(IF x = <<>> THEN x ELSE Tail(x),
                                  IF y = <<>> THEN y ELSE Tail(y), s \div Base)

\* x * k + carry for a factor k below 2^22.
RECURSIVE NatMulSmall(_, _, _)
NatMulSmall(x, k, carry) ==
  IF x = <<>> THEN FromSmall(carry)
  ELSE LET s == Head(x) * k + carry
       IN  <<s % Base>> \o NatMulSmall(Tail(x), k, s \div Base)

\* x * y.
RECURSIVE NatMul(_, _)
NatMul(x, y) ==
  IF y = <<>> THEN <<>>
  ELSE Norm(NatAdd(NatMulSmall(x, Head(y), 0), <<0>> \o NatMul(x, Tail(y)), 0))

\* Quotient and remainder of x by a divisor d below 2^22.
RECURSIVE NatDivRem(_, _)
NatDivRem(x, d) ==
  IF x = <<>> THEN [q |-> <<>>, r |-> 0]
  ELSE LET high == NatDivRem(Tail(x), d)
           cur == high.r * Base + Head(x)
       IN  [q |-> <<cur \div d>> \o high.q, r |-> cur % d]

\* -1, 0 or 1 as x is below, equal to or above y.
RECURSIVE NatCmp(_, _)
NatCmp(x, y) ==
  IF x = <<>> /\ y = <<>> THEN 0
  ELSE LET a == IF x = <<>> THEN 0 ELSE Head(x)
           b == IF y = <<>> THEN 0 ELSE Head(y)
           high == NatCmp(IF x = <<>> THEN x ELSE Tail(x), IF y = <<>> THEN y ELSE Tail(y))
       IN  IF high # 0 THEN high ELSE IF a < b THEN -1 ELSE IF a > b THEN 1 ELSE 0

\* A result stored in a uint64_t: the value modulo 2^64.
Trunc64(x) == Norm(SubSeq(x, 1, IF Len(x) < Width THEN Len(x) ELSE Width))

\* 200 * 1024 * 1024 as uint64_t.
MinRamCacheBytes == Norm(NatMulSmall(FromSmall(200), 1024 * 1024, 0))

\* A decimal digit of an option value; -1 for another character.
DigitValue(c) ==
  CASE c = "0" -> 0 [] c = "1" -> 1 [] c = "2" -> 2 [] c = "3" -> 3 [] c = "4" -> 4
    [] c = "5" -> 5 [] c = "6" -> 6 [] c = "7" -> 7 [] c = "8" -> 8 [] c = "9" -> 9
    [] OTHER -> -1

\* The number written by the leading digits of the text, without a width.
RECURSIVE DecimalValue(_, _)
DecimalValue(text, value) ==
  IF text = <<>> \/ DigitValue(Head(text)) < 0 THEN Norm(value)
  ELSE DecimalValue(Tail(text), NatMulSmall(value, 10, DigitValue(Head(text))))

\* String2Uint64: the leading digits of the text read into a uint64_t.
String2Uint64(text) == Trunc64(DecimalValue(text, <<>>))

\* HasSuffix(optarg, "%", false).
HasSuffix(text, suffix) == text # <<>> /\ text[Len(text)] = suffix

\* RoundUp8: (size + 7) & ~7 on uint64_t.
RoundUp8(size) ==
  Trunc64(NatMulSmall(NatDivRem(Trunc64(NatAdd(size, FromSmall(7), 0)), 8).q, 8, 0))

\* sz_cache_bytes of FileSystem::SetupRamCacheMgr before the floor: a
\* percentage of platform_memsize(), the size in MiB, or the memory >> 5.
SzCacheBytes(memsize, o) ==
  IF o.size_defined
    THEN IF HasSuffix(o.CVMFS_CACHE_SIZE, "%")
           THEN Norm(NatDivRem(Trunc64(NatMul(memsize, String2Uint64(o.CVMFS_CACHE_SIZE))),
                               100).q)
           ELSE Trunc64(NatMulSmall(Trunc64(NatMulSmall(String2Uint64(o.CVMFS_CACHE_SIZE),
                                                        1024, 0)), 1024, 0))
    ELSE Norm(NatDivRem(memsize, 32).q)

\* The larger of two numbers (std::max).
NatMax(x, y) == IF NatCmp(x, y) < 0 THEN y ELSE x

\* FileSystem::SetupRamCacheMgr: an unknown CVMFS_CACHE_MALLOC fails with
\* kFailOptions, otherwise the RamCacheManager is constructed with
\* RoundUp8(max(200 MiB, sz_cache_bytes)).
Ram_SetupRamCacheMgr ==
  /\ unit.pc = "ram options"
  /\ unit' = IF unit.options.malloc \notin {"", "libc", "heap"}
               THEN [unit EXCEPT !.pc = "ram failed", !.boot_status_ = "kFailOptions"]
               ELSE [unit EXCEPT
                       !.pc = "ram created",
                       !.sz_cache_bytes =
                         RoundUp8(NatMax(MinRamCacheBytes,
                                         SzCacheBytes(unit.memsize, unit.options)))]
  /\ UNCHANGED <<env, cache, fs, g_alive, n_alive, lock_file, flock_owner, running_file, mp>>

\* delete cache_mgr_ of the FileSystem that owns the RAM cache manager.
Ram_dtor ==
  /\ unit.pc \in {"ram created", "ram failed"}
  /\ unit' = [unit EXCEPT !.pc = "ram deleted"]
  /\ UNCHANGED <<env, cache, fs, g_alive, n_alive, lock_file, flock_owner, running_file, mp>>

-----------------------------------------------------------------------------
\* The values of the maximum TTL, with the width of "unsigned".

\* Bytes of an unsigned.
UnsignedWidth == 4

\* A result stored in an unsigned: the value modulo 2^32.
Trunc32(x) == Norm(SubSeq(x, 1, IF Len(x) < UnsignedWidth THEN Len(x) ELSE UnsignedWidth))

\* MountPoint::SetMaxTtlMn: max_ttl_sec_ = value_minutes * 60.
SetMaxTtlMn(value_minutes) == Trunc32(NatMulSmall(value_minutes, 60, 0))

\* MountPoint::GetMaxTtlMn: max_ttl_sec_ / 60.
GetMaxTtlMn(max_ttl_sec_) == Norm(NatDivRem(max_ttl_sec_, 60).q)

\* MountPoint::GetEffectiveTtlSec:
\* max_ttl ? std::min(max_ttl, catalog_ttl_sec) : catalog_ttl_sec.
GetEffectiveTtlSec(max_ttl, catalog_ttl_sec) ==
  IF max_ttl # <<>>
    THEN (IF NatCmp(catalog_ttl_sec, max_ttl) < 0 THEN catalog_ttl_sec ELSE max_ttl)
    ELSE catalog_ttl_sec

\* A caller sets the maximum TTL in minutes.
Val_SetMaxTtlMn(value_minutes) ==
  /\ unit.pc = "ttl value"
  /\ unit' = [unit EXCEPT !.max_ttl_sec_ = SetMaxTtlMn(value_minutes),
                          !.set = <<value_minutes>>,
                          !.op = "SetMaxTtlMn", !.ret = <<>>, !.catalog_ttl_sec = <<>>]
  /\ UNCHANGED <<env, cache, fs, g_alive, n_alive, lock_file, flock_owner, running_file, mp>>

\* A caller reads the maximum TTL in minutes.
Val_GetMaxTtlMn ==
  /\ unit.pc = "ttl value"
  /\ unit' = [unit EXCEPT !.op = "GetMaxTtlMn", !.ret = GetMaxTtlMn(unit.max_ttl_sec_),
                          !.catalog_ttl_sec = <<>>]
  /\ UNCHANGED <<env, cache, fs, g_alive, n_alive, lock_file, flock_owner, running_file, mp>>

\* A caller asks for the effective TTL while the catalog manager reports
\* catalog_ttl_sec.
Val_GetEffectiveTtlSec(catalog_ttl_sec) ==
  /\ unit.pc = "ttl value"
  /\ unit' = [unit EXCEPT !.op = "GetEffectiveTtlSec",
                          !.ret = GetEffectiveTtlSec(unit.max_ttl_sec_, catalog_ttl_sec),
                          !.catalog_ttl_sec = catalog_ttl_sec]
  /\ UNCHANGED <<env, cache, fs, g_alive, n_alive, lock_file, flock_owner, running_file, mp>>

-----------------------------------------------------------------------------
\* FileSystem::SetupCwd: a fuse module changes into the workspace and calls
\* it "." from then on; a library keeps the path.
WorkspaceAfterCwd(type, workspace_fullpath_) ==
  IF type = "kFsFuse" THEN "." ELSE workspace_fullpath_

\* FileSystem::SetupNfsMaps of the run, on the posix cache manager that
\* TriageCacheMgr returned: without NFS the sentinel no_nfs_maps.<name> is
\* created; with NFS a sentinel that exists fails the boot, then the cache
\* path is asserted to be the workspace, then the maps are initialised.
Ws_SetupNfsMaps ==
  /\ unit.pc = "cache"
  /\ unit.cache_mgr_ # NullMgr
  /\ \E no_nfs_sentinel, init_fails \in BOOLEAN :
       LET r == [unit.file_system EXCEPT !.cache_mgr_ = "posix"]
           asserted == unit.cache_path = WorkspaceAfterCwd(unit.type, unit.workspace_)
           aborts == IsNfsSource(r) /\ ~no_nfs_sentinel /\ ~asserted
       IN  unit' = [unit EXCEPT
                      !.pc = IF aborts THEN "aborted" ELSE "nfs maps",
                      !.assertion = IF aborts THEN "SetupNfsMaps" ELSE "",
                      !.file_system =
                        IF aborts THEN r
                        ELSE SetupNfsMaps(r, no_nfs_sentinel, FALSE, init_fails)]
  /\ UNCHANGED <<env, cache, fs, g_alive, n_alive, lock_file, flock_owner, running_file, mp>>

-----------------------------------------------------------------------------
\* Contexts that follow one another on one workspace: each is created, and
\* then destroyed or killed, before the next is created.

\* What SetupCacheMgr does for the default posix instance of a context: a
\* managed exclusive cache constructs the quota manager with
\* found_previous_crash_ ("managed", and "quota fails" when the construction
\* or the cleanup fails), a cache without quota constructs none
\* ("unmanaged"), and wrong settings fail before it ("options fail").
CacheOutcomes == {"managed", "unmanaged", "quota fails", "options fail"}

\* FileSystem::Create of one context up to the end of SetupWorkspace, on the
\* workspace whose crash sentinel exists or not and whose lock is free.
EstablishWorkspace(running, mode, fault) ==
  LET r1 == SetupWorkspace(DetermineNfsMode(NewFileSystem(TRUE, "kFsFuse"), mode),
                           FALSE, fault = "mkdir")
      r2 == IF Returned(r1) THEN r1 ELSE LockWorkspace(r1, fault = "lock", 1)
      r3 == IF Returned(r2) THEN r2 ELSE LockWorkspace_TryLockFile(r2, 1)
      r4 == IF Returned(r3) THEN r3 ELSE SetupCwd(r3, fault = "chdir")
  IN  IF Returned(r4) THEN r4 ELSE SetupCrashGuard(r4, running, fault = "guard")

\* FileSystem::Create from TriageCacheMgr to RegisterVfsRdOnly.
CreateOnWorkspace(r0, fault, outcome, no_nfs_sentinel) ==
  LET res == CASE outcome = "options fail" -> "kFailOptions"
               [] outcome = "quota fails" -> "kFailQuota"
               [] OTHER -> "posix"
      r1 == IF Returned(r0) THEN r0
            ELSE TriageCacheMgr(r0, [length |-> 0, sane |-> TRUE], res)
      r2 == IF Returned(r1) THEN r1
            ELSE SetupNfsMaps(SetupUuid(r1), no_nfs_sentinel, fault = "nfs mkdir",
                              fault = "nfs init")
  IN  IF Returned(r2) THEN r2 ELSE RegisterVfsRdOnly(r2)

\* The calls of the context that take found_previous_crash_:
\* PosixQuotaManager::Create in SetupPosixQuotaMgr and nfs_maps::Init in
\* SetupNfsMaps.
HandedCrashFlag(r, fault, outcome, no_nfs_sentinel) ==
  LET triaged == "TriageCacheMgr" \in {r.stages[i] : i \in DOMAIN r.stages}
      quota == triaged /\ outcome \in {"managed", "quota fails"}
      nfs == /\ "SetupNfsMaps" \in {r.stages[i] : i \in DOMAIN r.stages}
             /\ IsNfsSource(r) /\ ~no_nfs_sentinel /\ fault # "nfs mkdir"
  IN  (IF quota THEN {[to |-> "PosixQuotaManager::Create",
                       found_previous_crash |-> r.found_previous_crash_]} ELSE {})
      \cup (IF nfs THEN {[to |-> "nfs_maps::Init",
                          found_previous_crash |-> r.found_previous_crash_]} ELSE {})

\* FileSystem::Create of the next context.  owed says that a context was
\* killed and no context since has handed found_previous_crash_ on.
Crash_Create ==
  /\ unit.pc = "workspace"
  /\ unit.contexts < MaxBoots
  /\ \E mode \in {"kNfsNone", "kNfsMaps"}, outcome \in CacheOutcomes,
        fault \in {"none", "mkdir", "lock", "chdir", "guard", "nfs mkdir", "nfs init"},
        no_nfs_sentinel \in BOOLEAN :
     \E r0 \in {EstablishWorkspace(unit.running_file, mode, fault)} :
     \E r \in {CreateOnWorkspace(r0, fault, outcome, no_nfs_sentinel)} :
       LET handed == HandedCrashFlag(r, fault, outcome, no_nfs_sentinel)
       IN  /\ outcome # "managed" => no_nfs_sentinel = FALSE
           /\ unit' = [unit EXCEPT
                         !.pc = "file system",
                         !.contexts = @ + 1,
                         !.file_system = r,
                         !.running_file = @ \/ (r.path_crash_guard_
                                                /\ r.failed_at # "SetupCrashGuard"),
                         !.handed = handed,
                         !.owed_before = unit.owed,
                         !.owed = unit.owed /\ handed = {}]
  /\ UNCHANGED <<env, cache, fs, g_alive, n_alive, lock_file, flock_owner, running_file, mp>>

\* FileSystem::~FileSystem of the context: "if (!path_crash_guard_.empty())
\* unlink(path_crash_guard_.c_str())".
Crash_dtor ==
  /\ unit.pc = "file system"
  /\ unit' = [unit EXCEPT !.pc = "workspace",
                          !.running_file = @ /\ ~unit.file_system.path_crash_guard_,
                          !.dtors_since_crash = IF unit.owed THEN @ + 1 ELSE 0,
                          !.file_system = NoFileSystem("destroyed")]
  /\ UNCHANGED <<env, cache, fs, g_alive, n_alive, lock_file, flock_owner, running_file, mp>>

\* The process of a context that booted is killed: nothing is torn down.
Crash_Kill ==
  /\ unit.pc = "file system"
  /\ unit.file_system.boot_status_ = "kFailOk"
  /\ unit' = [unit EXCEPT !.pc = "workspace", !.owed = TRUE, !.dtors_since_crash = 0,
                          !.file_system = NoFileSystem("aborted")]
  /\ UNCHANGED <<env, cache, fs, g_alive, n_alive, lock_file, flock_owner, running_file, mp>>

-----------------------------------------------------------------------------
Next ==
  \E p \in Procs :
    \/ Create(p)
    \/ Restart(p)
    \/ TryLockFile_flock(p)
    \/ LockFile_open(p)
    \/ LockFile_flock(p)
    \/ SetupWorkspace_CrashGuard(p)
    \/ Create_CacheMgr(p)
    \/ Create_NfsMaps(p)
    \/ Dtor_UnlinkCrashGuard(p)
    \/ Dtor_UnlinkLock(p)
    \/ Dtor_UnlockFile(p)

\* NProc processes contend for the workspace; no faults, no mount points.
Init ==
  /\ InitWorkspace
  /\ env = [procs |-> Procs, full |-> {}, mounts |-> {}]

Spec == Init /\ [][Next]_vars

\* One process boots with every option and every fault, next to one other
\* process that contends for the workspace.
InitBoot ==
  /\ InitWorkspace
  /\ env = [procs |-> {1, 2}, full |-> {1}, mounts |-> {}]

BootSpec == InitBoot /\ [][Next]_vars

\* The steps of FileSystem::Create between its blocking points.
BootStep(p) ==
  \/ TryLockFile_flock(p)
  \/ LockFile_open(p)
  \/ SetupWorkspace_CrashGuard(p)
  \/ Create_CacheMgr(p)
  \/ Create_NfsMaps(p)

\* The steps of ~FileSystem.
Destroy(p) ==
  \/ Dtor_UnlinkCrashGuard(p)
  \/ Dtor_UnlinkLock(p)
  \/ Dtor_UnlockFile(p)

\* Two processes contend for the workspace without faults.
InitLive ==
  /\ InitWorkspace
  /\ env = [procs |-> {1, 2}, full |-> {}, mounts |-> {}]

\* A running Create goes on, every FileSystem is destroyed in the end, and
\* flock(LOCK_EX) returns to a caller whose file is unlocked again and again.
Fairness ==
  \A p \in Procs :
    /\ WF_vars(BootStep(p))
    /\ WF_vars(Destroy(p))
    /\ SF_vars(LockFile_flock(p))

LiveSpec == InitLive /\ [][Next]_vars /\ Fairness

\* The steps of a process that also builds a MountPoint on its FileSystem.
MountNext ==
  \E p \in Procs :
    \/ Create(p)
    \/ Restart(p)
    \/ TryLockFile_flock(p)
    \/ LockFile_open(p)
    \/ LockFile_flock(p)
    \/ SetupWorkspace_CrashGuard(p)
    \/ Create_CacheMgr(p)
    \/ Create_NfsMaps(p)
    \/ MountPoint_Create(p)
    \/ MountPoint_dtor(p)
    \/ Dtor_UnlinkCrashGuard(p)
    \/ Dtor_UnlinkLock(p)
    \/ Dtor_UnlockFile(p)

\* As InitBoot, and the process with every option and fault mounts a
\* repository.
InitMount ==
  /\ InitWorkspace
  /\ env = [procs |-> {1, 2}, full |-> {1}, mounts |-> {1}]

MountSpec == InitMount /\ [][MountNext]_vars

\* The steps of a FileSystem whose cache manager factory is looked at alone.
CacheNext ==
  \/ Cache_TriageCacheMgr
  \/ Cache_dtor

\* Values of the option CVMFS_CACHE_QUOTA_LIMIT.
QuotaOptions == -1..MaxQuotaMB

\* Cache sizes in half MiB, up to beyond the largest limit.
CacheSizes == {k * (MiB \div 2) : k \in 0..(2 * MaxQuotaMB + 1)}

\* The options and collaborators of a posix instance; Cleanup does not grow
\* the cache.
PosixInstances ==
  {o \in [type : {NotDefined}, upper : {NotDefined}, lower : {NotDefined},
          malloc : {NotDefined}, locator : {FALSE},
          shared : BOOLEAN, alien : BOOLEAN,
          quota_defined : BOOLEAN, quota_mb : QuotaOptions,
          base_defined : BOOLEAN, dir_defined : BOOLEAN, in_workspace : BOOLEAN,
          create_fails : BOOLEAN, quota_create_fails : BOOLEAN,
          size : CacheSizes, size_after : CacheSizes,
          plugin_invalid : {FALSE}, ext_create_fails : {FALSE},
          tiered_create_fails : {FALSE}] :
     /\ o.size_after <= o.size
     /\ ~o.quota_defined => o.quota_mb = 0}

\* Instances that are not tiered: an undefined type, ram caches with and
\* without a known allocator, a posix cache with the default quota, a posix
\* cache beyond its quota that cannot be cleaned up, external caches with and
\* without a manager.
LeafInstances ==
  {Instance(NotDefined),
   Instance("ram"),
   [Instance("ram") EXCEPT !.malloc = "arena"],
   Instance("posix"),
   [Instance("posix") EXCEPT !.quota_defined = TRUE, !.quota_mb = 1,
                             !.size = 2 * MiB, !.size_after = 2 * MiB],
   [Instance("external") EXCEPT !.locator = TRUE],
   [Instance("external") EXCEPT !.locator = TRUE, !.ext_create_fails = TRUE]}

\* Tiered instances over the names refs.
TieredInstances(refs) ==
  {[Instance("tiered") EXCEPT !.upper = u, !.lower = l, !.tiered_create_fails = f] :
     u \in refs, l \in refs, f \in BOOLEAN}

\* The FileSystem and the configuration in front of TriageCacheMgr.
CacheRun(type, primary, cfg) ==
  [pc |-> "TriageCacheMgr", primary |-> primary, cfg |-> cfg,
   cache_mgr_ |-> NullMgr, st |-> NewResolution(type)]

\* The default instance alone, with every posix option, in both modes.
PosixRuns ==
  {CacheRun(type, NotDefined,
            [n \in InstanceNames |->
               IF n = kDefaultCacheMgrInstance THEN o ELSE Instance(NotDefined)]) :
     type \in {"kFsFuse", "kFsLibrary"}, o \in PosixInstances}

\* A fuse module whose primary instance "a" can be tiered over every name,
\* "b" tiered over the sane names, "c" a leaf; the instances with the odd
\* names are ram caches.
TieredRuns ==
  {CacheRun("kFsFuse", "a",
            [n \in InstanceNames |->
               CASE n = "a" -> a
                 [] n = "b" -> b
                 [] n = "c" -> c
                 [] n = kDefaultCacheMgrInstance -> Instance(NotDefined)
                 [] OTHER -> Instance("ram")]) :
     a \in LeafInstances \cup TieredInstances(InstanceNames \cup {NotDefined}),
     b \in LeafInstances \cup TieredInstances({"a", "b", "c", NotDefined}),
     c \in LeafInstances}

\* A fuse module whose primary instance is a ram cache of any name.
NamedRuns ==
  {CacheRun("kFsFuse", primary, [n \in InstanceNames |-> Instance("ram")]) :
     primary \in InstanceNames}

InitCache ==
  /\ fs = [p \in Procs |-> NoFileSystem("none")]
  /\ g_alive = [p \in Procs |-> FALSE]
  /\ n_alive = [p \in Procs |-> 0]
  /\ lock_file = NoFile
  /\ flock_owner = [i \in Inodes |-> 0]
  /\ running_file = FALSE
  /\ mp = [p \in Procs |-> NoMountPoint]
  /\ env = [procs |-> {}, full |-> {}, mounts |-> {}]
  /\ cache \in PosixRuns \cup TieredRuns \cup NamedRuns
  /\ unit = [pc |-> "none"]

CacheSpec == InitCache /\ [][CacheNext]_vars

\* No process runs and the cache manager factory is not looked at.
InitAlone ==
  /\ fs = [p \in Procs |-> NoFileSystem("none")]
  /\ g_alive = [p \in Procs |-> FALSE]
  /\ n_alive = [p \in Procs |-> 0]
  /\ lock_file = NoFile
  /\ flock_owner = [i \in Inodes |-> 0]
  /\ running_file = FALSE
  /\ mp = [p \in Procs |-> NoMountPoint]
  /\ env = [procs |-> {}, full |-> {}, mounts |-> {}]
  /\ cache = [pc |-> "none"]

\* Tag databases of a repository: none, one tag, two tags in sequence, two
\* tags published in the same second, and tags up to the largest time.
TagDatabases ==
  { {},
    {Tag("v1", 2, <<"a", "1">>)},
    {Tag("v1", 2, <<"a", "1">>), Tag("v2", MaxTime, <<"f", "a">>)},
    {Tag("v1", 1, <<"a", "1">>), Tag("v2", 3, <<"f", "a">>), Tag("v3", 3, <<"1", "f">>)} }

\* Options that decide the root hash and the fixed flag; a parameter that is
\* not set has no value to choose.
RootOptions ==
  {o \in [defined : SUBSET {"CVMFS_ROOT_HASH", "CVMFS_REPOSITORY_TAG",
                            "CVMFS_REPOSITORY_DATE", "CVMFS_AUTO_UPDATE"},
          CVMFS_ROOT_HASH : {<<"0", "0">>, <<"a", "f">>},
          CVMFS_REPOSITORY_TAG : {"", "v1", "v2", "v9"},
          CVMFS_REPOSITORY_DATE : DateTexts,
          CVMFS_AUTO_UPDATE : {"yes", "no"}] :
     /\ ~IsDefined(o, "CVMFS_ROOT_HASH") => o.CVMFS_ROOT_HASH = <<"0", "0">>
     /\ ~IsDefined(o, "CVMFS_REPOSITORY_TAG") => o.CVMFS_REPOSITORY_TAG = ""
     /\ ~IsDefined(o, "CVMFS_REPOSITORY_DATE") => ~o.CVMFS_REPOSITORY_DATE.wellformed
     /\ ~IsDefined(o, "CVMFS_AUTO_UPDATE") => o.CVMFS_AUTO_UPDATE = "yes"}

\* The state of the repository: its tag database and what goes wrong on the
\* way to it.
Histories ==
  [tag_db : TagDatabases, fault : {"none"}]
  \cup [tag_db : {{}}, fault : {"manifest", "no history", "download", "open"}]

\* Root hash resolution on its own: one MountPoint per choice of options and
\* repository, on a fuse FileSystem that booted.
InitRoot ==
  /\ InitAlone
  /\ \E o \in RootOptions, h \in Histories :
       unit = [pc |-> "root options", options |-> o, history |-> h,
               file_system |-> [NewFileSystem(TRUE, "kFsFuse") EXCEPT
                                  !.boot_status_ = "kFailOk"],
               resolved |-> RootHash(FALSE, NullHash, "kFailUnknown", ""),
               mp |-> NoMountPoint]

RootNext == Root_Create \/ Root_dtor

RootSpec == InitRoot /\ [][RootNext]_vars

\* The options that place the workspace and the default cache; a parameter
\* that is not set has no value to choose.
WorkspaceOptions ==
  {o \in [defined : SUBSET {"CVMFS_WORKSPACE", "CVMFS_CACHE_BASE", "CVMFS_CACHE_DIR",
                            "CVMFS_SHARED_CACHE", "CVMFS_CACHE_SHARED",
                            "CVMFS_ALIEN_CACHE", "CVMFS_CACHE_ALIEN",
                            "CVMFS_QUOTA_LIMIT", "CVMFS_CACHE_QUOTA_LIMIT"},
          CVMFS_WORKSPACE : {"/w"},
          CVMFS_CACHE_BASE : {"/b", "/b/"},
          CVMFS_CACHE_DIR : {"/d"},
          CVMFS_SHARED_CACHE : {"yes", "no"},
          CVMFS_CACHE_SHARED : {"yes", "no"},
          CVMFS_ALIEN_CACHE : {"/alien"},
          CVMFS_CACHE_ALIEN : {"/alien"},
          CVMFS_QUOTA_LIMIT : QuotaOptions,
          CVMFS_CACHE_QUOTA_LIMIT : {0, MaxQuotaMB}] :
     /\ ~IsDefined(o, "CVMFS_CACHE_BASE") => o.CVMFS_CACHE_BASE = "/b"
     /\ ~IsDefined(o, "CVMFS_SHARED_CACHE") => o.CVMFS_SHARED_CACHE = "no"
     /\ ~IsDefined(o, "CVMFS_CACHE_SHARED") => o.CVMFS_CACHE_SHARED = "no"
     /\ ~IsDefined(o, "CVMFS_QUOTA_LIMIT") => o.CVMFS_QUOTA_LIMIT = 0
     /\ ~IsDefined(o, "CVMFS_CACHE_QUOTA_LIMIT") => o.CVMFS_CACHE_QUOTA_LIMIT = 0}

\* Workspace and default cache on their own: one boot per choice of options,
\* as a fuse module with and without CVMFS_NFS_SOURCE and as a library (which
\* DetermineNfsMode stops in front of the workspace when CVMFS_NFS_SOURCE is
\* on), for the repository "repo".
InitWorkspacePaths ==
  /\ InitAlone
  /\ \E o \in WorkspaceOptions, type \in {"kFsFuse", "kFsLibrary"},
        nfs_mode \in {"kNfsNone", "kNfsMaps"} :
       /\ type = "kFsLibrary" => nfs_mode = "kNfsNone"
       /\ unit = [pc |-> "workspace options", type |-> type, name |-> "repo",
                  options |-> o, nfs_mode |-> nfs_mode, assertion |-> "",
                  file_system |-> NewFileSystem(TRUE, type),
                  workspace_ |-> "",
                  settings |-> DeterminePosixCacheSettings(type, Instance("posix")),
                  cache_path |-> "",
                  cache_mgr_ |-> NullMgr,
                  st |-> NewResolution(type)]

WorkspaceNext == Ws_SetupWorkspace \/ Ws_TriageCacheMgr \/ Ws_SetupNfsMaps

WorkspaceSpec == InitWorkspacePaths /\ [][WorkspaceNext]_vars

\* A posix cache directory on its own: boots of a fuse module in any NFS
\* mode, one after the other, and wipes in between.
InitNfs ==
  /\ InitAlone
  /\ unit = [pc |-> "cache directory", cache_dir |-> WipedCache, boots |-> <<>>,
             file_system |-> NoFileSystem("none")]

NfsNext == Nfs_Create \/ Nfs_dtor \/ Nfs_Wipe

NfsSpec == InitNfs /\ [][NfsNext]_vars

\* The steps of processes that also switch to the read-only cache.
GuardNext ==
  \E p \in Procs :
    \/ Create(p)
    \/ Restart(p)
    \/ TryLockFile_flock(p)
    \/ LockFile_open(p)
    \/ LockFile_flock(p)
    \/ SetupWorkspace_CrashGuard(p)
    \/ Create_CacheMgr(p)
    \/ Create_NfsMaps(p)
    \/ TearDown2ReadOnly(p)
    \/ Crash_ReadOnly(p)
    \/ Dtor_UnlinkCrashGuard(p)
    \/ Dtor_UnlinkLock(p)
    \/ Dtor_UnlockFile(p)

\* Two processes contend for the workspace without faults; a second Create
\* in a process that has a FileSystem aborts it.
GuardSpec == InitLive /\ [][GuardNext]_vars

\* A MountPoint after its constructor, and the threads that use it.
InitTtl ==
  /\ InitAlone
  /\ unit = [pc |-> "ttl",
             max_ttl_sec_ |-> kDefaultMaxTtlSec,
             lock_max_ttl_ |-> 0,
             storing |-> {},
             written |-> {},
             thread |-> [t \in Threads |-> IdleThread]]

TtlNext ==
  \E t \in Threads :
    \/ Ttl_Call(t)
    \/ Ttl_Lock(t)
    \/ Ttl_StoreBegin(t)
    \/ Ttl_StoreEnd(t)
    \/ Ttl_Load(t)
    \/ Ttl_Unlock(t)
    \/ Ttl_GetTTL(t)

TtlSpec == InitTtl /\ [][TtlNext]_vars

-----------------------------------------------------------------------------
\* The destructor of a MountPoint on its own: one MountPoint per file system
\* type and per outcome of MountPoint::Create.
InitDtor ==
  /\ InitAlone
  /\ \E type \in {"kFsFuse", "kFsLibrary"}, in \in MountInputs :
       unit = [pc |-> "new", type |-> type, in |-> in,
               file_system |-> [NewFileSystem(TRUE, type) EXCEPT
                                  !.boot_status_ = "kFailOk"],
               mp |-> NoMountPoint, alive |-> {}, next |-> 1,
               deleted |-> <<>>, finished |-> {}, dangling |-> {}]

DtorNext == Dtor_Create \/ Dtor_Statement

DtorSpec == InitDtor /\ [][DtorNext]_vars

-----------------------------------------------------------------------------
\* Physical memory of the machine in bytes: 1 GiB, 12 GiB, 16 GiB, 1 TiB.
MemSizes ==
  {Norm(NatMulSmall(FromSmall(k), 1024 * 1024, 0)) : k \in {1024, 12288, 16384, 1048576}}

\* Texts of CVMFS_CACHE_SIZE: sizes in MiB below, at and above the floor, the
\* first sizes whose byte count does not fit 64 bits, the largest uint64_t,
\* and percentages.
CacheSizeTexts ==
  {<<"0">>, <<"1", "0", "0">>, <<"2", "0", "0">>, <<"2", "0", "1">>, <<"4", "0", "9", "6">>,
   <<"1", "7", "5", "9", "2", "1", "8", "6", "0", "4", "4", "4", "1", "6">>,
   <<"1", "7", "5", "9", "2", "1", "8", "6", "0", "4", "4", "4", "1", "7">>,
   <<"1", "8", "4", "4", "6", "7", "4", "4", "0", "7", "3", "7", "0", "9", "5", "5", "1",
     "6", "1", "5">>,
   <<"0", "%">>, <<"3", "%">>, <<"5", "0", "%">>, <<"1", "0", "0", "%">>,
   <<"2", "0", "0", "0", "0", "0", "0", "0", "%">>}

\* The options SetupRamCacheMgr reads; malloc "" is CVMFS_CACHE_MALLOC not set.
RamOptions ==
  [size_defined : {TRUE}, CVMFS_CACHE_SIZE : CacheSizeTexts,
   malloc : {"", "libc", "heap", "tcmalloc"}]
  \cup [size_defined : {FALSE}, CVMFS_CACHE_SIZE : {<<>>},
        malloc : {"", "libc", "heap", "tcmalloc"}]

\* SetupRamCacheMgr on its own: one call per machine and per configuration.
InitRam ==
  /\ InitAlone
  /\ \E memsize \in MemSizes, o \in RamOptions :
       unit = [pc |-> "ram options", memsize |-> memsize, options |-> o,
               boot_status_ |-> "kFailUnknown", sz_cache_bytes |-> <<>>]

RamNext == Ram_SetupRamCacheMgr \/ Ram_dtor

RamSpec == InitRam /\ [][RamNext]_vars

-----------------------------------------------------------------------------
\* Minutes a caller passes to SetMaxTtlMn: small values, the last value whose
\* seconds fit an unsigned and the first that do not, 2^30, 2^31 and the
\* largest unsigned.
MinuteValues ==
  {FromSmall(n) : n \in {0, 1, 2, 60, 1440, 71582788, 71582789, 143165577, 1073741824}}
  \cup {<<0, 0, 0, 128>>, <<255, 255, 255, 255>>}

\* Seconds the catalog manager reports as the TTL of the root catalog.
CatalogTtlValues ==
  {FromSmall(n) : n \in {0, 1, 44, 61, 90, 3600, 86400}} \cup {<<255, 255, 255, 255>>}

\* The maximum TTL of one MountPoint, called from one thread; set is the
\* argument of the last SetMaxTtlMn, if any.
InitTtlValue ==
  /\ InitAlone
  /\ unit = [pc |-> "ttl value", max_ttl_sec_ |-> FromSmall(kDefaultMaxTtlSec),
             set |-> <<>>, op |-> "", ret |-> <<>>, catalog_ttl_sec |-> <<>>]

TtlValueNext ==
  \/ \E value_minutes \in MinuteValues : Val_SetMaxTtlMn(value_minutes)
  \/ Val_GetMaxTtlMn
  \/ \E catalog_ttl_sec \in CatalogTtlValues : Val_GetEffectiveTtlSec(catalog_ttl_sec)

TtlValueSpec == InitTtlValue /\ [][TtlValueNext]_vars

-----------------------------------------------------------------------------
\* One workspace without a crash sentinel and the contexts that use it one
\* after the other.
InitCrash ==
  /\ InitAlone
  /\ unit = [pc |-> "workspace", contexts |-> 0, running_file |-> FALSE,
             file_system |-> NoFileSystem("none"), handed |-> {},
             owed |-> FALSE, owed_before |-> FALSE, dtors_since_crash |-> 0]

CrashNext == Crash_Create \/ Crash_dtor \/ Crash_Kill

CrashSpec == InitCrash /\ [][CrashNext]_vars

-----------------------------------------------------------------------------
\* Process p is past LockWorkspace with a valid lock descriptor and its
\* FileSystem is not being destroyed.
Holder(p) ==
  /\ fs[p].pc \in {"SetupCrashGuard", "TriageCacheMgr", "SetupNfsMaps", "ready"}
  /\ fs[p].fd_workspace_lock_ >= 0

\* Process p is in a step of ~FileSystem.
DtorStep(p) ==
  /\ fs[p].pc \in {"ready"} \cup DtorPcs
  /\ fs'[p].pc \in DtorPcs \cup {"destroyed"}

\* C1: workspace mutual exclusion.  At most one process at a time is past
\* LockWorkspace with the lock and not yet destroyed, also when other
\* processes fail to get the lock and are destroyed, and when a holder's
\* destructor unlinks the lock file before it unlocks it.
C1_MutualExclusion == Cardinality({p \in Procs : Holder(p)}) <= 1

C10_FailedContextLeavesHolder ==
  [][\A p \in Procs :
       (DtorStep(p) /\ fs[p].failed_at = "LockWorkspace" /\ fs[p].fd_workspace_lock_ < 0
          /\ \E q \in Procs \ {p} : Holder(q))
       => /\ lock_file' = lock_file
          /\ running_file' = running_file
          /\ flock_owner' = flock_owner]_vars

-----------------------------------------------------------------------------
\* C4: in every state a process has at most one FileSystem alive, and g_alive
\* is true exactly while the process has a FileSystem object, from the
\* constructor to the end of the destructor, also when the boot failed.
C4_Singleton ==
  \A p \in Procs :
    /\ n_alive[p] <= 1
    /\ fs[p].pc \notin NoObjectPcs => (g_alive[p] /\ n_alive[p] = 1)
    /\ fs[p].pc \in NoObjectPcs => (~g_alive[p] /\ n_alive[p] = 0)

\* C4 witness: an object whose boot failed is alive after Create returned.
C4_Witness ==
  \E p \in Procs :
    /\ fs[p].pc = "ready" /\ fs[p].failed_at # "" /\ g_alive[p] /\ n_alive[p] = 1

\* C5: once a FileSystem is destroyed g_alive is false, and the next
\* FileSystem of that process is constructed without tripping the assertion
\* of the constructor, in every round.
C5_Reconstructible ==
  [][\A p \in Procs :
       /\ fs'[p].pc = "destroyed" => (~g_alive'[p] /\ n_alive'[p] = 0)
       /\ (fs[p].pc = "destroyed" /\ fs'[p].pc # "destroyed")
            => (fs'[p].pc # "aborted" /\ g_alive'[p] /\ n_alive'[p] = 1)]_vars

\* C5 witness: a FileSystem whose boot failed has been destroyed while the
\* other process is alive.
C5_Witness ==
  \E p \in Procs :
    /\ fs[p].pc = "destroyed" /\ ~g_alive[p]
    /\ \E q \in Procs \ {p} : fs[q].pc = "ready" /\ fs[q].boot_status_ = "kFailOk"

\* The stages an object has run, without the blocking call inside
\* LockWorkspace.
StagesRun(p) == SelectSeq(fs[p].stages, LAMBDA s : s # "LockFile")

\* C6: the stages run in the fixed order, a stage runs only after all earlier
\* ones, and the stage that failed is the last one that ran.
C6_StageOrder ==
  \A p \in Procs :
    LET st == StagesRun(p)
    IN  /\ st = SubSeq(StageOrder, 1, Len(st))
        /\ fs[p].failed_at # "" => (Len(st) > 0 /\ st[Len(st)] = fs[p].failed_at)
        /\ fs[p].boot_status_ = "kFailOk" => st = StageOrder

\* C6 witness: a boot that stopped at the cache manager after the workspace
\* stages.
C6_Witness ==
  \E p \in Procs :
    /\ fs[p].pc = "ready" /\ fs[p].failed_at = "TriageCacheMgr"
    /\ Len(StagesRun(p)) = 9

\* C9: an object whose boot failed at the cache manager or at the NFS maps
\* still holds the workspace lock and its crash sentinel still exists until
\* the object is destroyed.
C9_FailedBootKeepsWorkspace ==
  \A p \in Procs :
    (fs[p].pc = "ready" /\ fs[p].failed_at \in {"TriageCacheMgr", "SetupNfsMaps"}) =>
      /\ fs[p].fd_workspace_lock_ >= 0
      /\ flock_owner[fs[p].fd_workspace_lock_] = p
      /\ fs[p].path_crash_guard_
      /\ running_file

-----------------------------------------------------------------------------
\* Members a MountPoint has constructed when MountPoint::Create succeeded.
MountMembers ==
  {"signature_mgr_", "download_mgr_", "external_download_mgr_", "fetcher_",
   "external_fetcher_", "catalog_mgr_", "tracer_", "md5path_cache_"}

\* The lookup tables of a MountPoint on a file system of the given type.
LookupTables(type) ==
  IF type = "kFsFuse"
    THEN {"chunk_tables_", "inode_cache_", "path_cache_", "md5path_cache_", "inode_tracker_"}
    ELSE {"md5path_cache_", "simple_chunk_tables_"}

\* C7: the boot status is kFailOk only after the last stage.  A FileSystem
\* with status kFailOk has run every stage, holds the workspace lock, has the
\* crash sentinel path, the cache manager, the uuid and the SQLite VFS; a
\* MountPoint with status kFailOk has run every stage and has its signature
\* manager, download managers, fetchers, catalog manager, tracer and tables.
C7_OkMeansComplete ==
  \A p \in Procs :
    /\ fs[p].boot_status_ = "kFailOk" =>
         /\ fs[p].pc \in {"ready"} \cup DtorPcs
         /\ StagesRun(p) = StageOrder
         /\ fs[p].failed_at = ""
         /\ fs[p].fd_workspace_lock_ >= 0
         /\ flock_owner[fs[p].fd_workspace_lock_] = p
         /\ fs[p].path_crash_guard_
         /\ fs[p].pc = "ready" =>
              /\ fs[p].cache_mgr_ # "NULL"
              /\ fs[p].uuid_cache_
              /\ fs[p].has_custom_sqlitevfs_
    /\ (mp[p] # NoMountPoint /\ mp[p].boot_status_ = "kFailOk") =>
         /\ mp[p].stages = MountStageOrder
         /\ mp[p].failed_at = ""
         /\ MountMembers \subseteq mp[p].built
         /\ LookupTables(fs[p].type_) \subseteq mp[p].built

\* C7 witness: a MountPoint with status kFailOk on a FileSystem with status
\* kFailOk.
C7_Witness ==
  \E p \in Procs :
    /\ fs[p].pc = "ready" /\ fs[p].boot_status_ = "kFailOk"
    /\ mp[p] # NoMountPoint /\ mp[p].boot_status_ = "kFailOk"

\* C8: a FileSystem::Create or MountPoint::Create that stopped at a failing
\* stage has set the boot status to one of the failure codes.
C8_FailureSetsCode ==
  \A p \in Procs :
    /\ fs[p].failed_at # "" => fs[p].boot_status_ \in FailureCodes
    /\ (mp[p] # NoMountPoint /\ mp[p].failed_at # "") =>
         mp[p].boot_status_ \in FailureCodes

-----------------------------------------------------------------------------
\* The elements of a sequence.
Range(seq) == {seq[i] : i \in DOMAIN seq}

\* The order in which ~FileSystem releases what the object can own.
ReleaseOrder ==
  <<"sqlitevfs", "uuid_cache_", "nfs_maps", "cache_mgr_", "crash_guard", "lock_file">>

-----------------------------------------------------------------------------
\* Claims on the cache manager factory.

\* TriageCacheMgr has returned (or the process died in it).
Triaged == cache.pc # "TriageCacheMgr"

\* The instance resolves to a posix cache manager.
IsPosix(cfg, n) == n = kDefaultCacheMgrInstance \/ cfg[n].type = "posix"

\* The calls made on collaborators of instance n.
EventsOf(st, n) == SelectSeq(st.events, LAMBDA e : e.object[2] = n)

\* C12: a posix instance whose settings are alien and also shared or managed
\* (managed by the built-in quota limit of a fuse module included) makes the
\* resolution fail with kFailOptions; no cache manager or quota manager of
\* that instance is constructed and its marker file is not written.
C12_AlienExclusive ==
  Triaged =>
    \A n \in cache.st.constructed_instances_ :
      LET settings == DeterminePosixCacheSettings(cache.st.type_, cache.cfg[n])
      IN  (/\ IsPosix(cache.cfg, n)
           /\ settings.is_alien
           /\ settings.is_shared \/ settings.is_managed)
            => /\ cache.cache_mgr_ = NullMgr
               /\ cache.st.boot_status_ = "kFailOptions"
               /\ EventsOf(cache.st, n) = <<>>
               /\ cache.st.live = {}

\* C12 witness: a fuse module with an alien default cache and no quota option
\* has been refused.
C12_Witness ==
  /\ cache.pc = "resolved" /\ cache.primary = NotDefined
  /\ cache.st.type_ = "kFsFuse"
  /\ cache.cfg[kDefaultCacheMgrInstance].alien
  /\ ~cache.cfg[kDefaultCacheMgrInstance].quota_defined
  /\ ~cache.cfg[kDefaultCacheMgrInstance].shared
  /\ cache.st.boot_status_ = "kFailOptions"

\* C13 as stated: every name the factory resolves that is longer than 24
\* characters or has a character outside letters, digits and underscore is
\* rejected with kFailOptions or kFailCacheDir before anything is constructed.
C13_InvalidNamesRejected ==
  Triaged =>
    \A n \in cache.st.constructed_instances_ \cup ({cache.primary} \ {NotDefined}) :
      ~CheckInstanceName(InstanceShape(n)).ok
        => /\ cache.cache_mgr_ = NullMgr
           /\ cache.st.boot_status_ \in {"kFailOptions", "kFailCacheDir"}
           /\ cache.st.events = <<>>

\* The instances a tiered instance names.
Refs(cfg, n) ==
  IF n # kDefaultCacheMgrInstance /\ cfg[n].type = "tiered"
    THEN {cfg[n].upper, cfg[n].lower} \ {NotDefined}
    ELSE {}

RECURSIVE Reach(_, _, _)
Reach(cfg, names, k) ==
  IF k = 0 THEN names
  ELSE Reach(cfg, names \cup UNION {Refs(cfg, n) : n \in names}, k - 1)

\* The instances below n in the configuration.
Descendants(cfg, n) == Reach(cfg, Refs(cfg, n), Cardinality(InstanceNames))

\* The instances the resolution of the primary instance can come across.
Mentioned(cfg, primary) == {primary} \cup Descendants(cfg, primary)

\* The configuration of the primary instance runs into a cycle.
Cyclic(cfg, primary) ==
  \E n \in Mentioned(cfg, primary) : n \in Descendants(cfg, n)

\* Every instance the configuration mentions is well defined and none of
\* its collaborators fails.
Sound(cfg, primary) ==
  \A n \in Mentioned(cfg, primary) :
    \/ n = kDefaultCacheMgrInstance /\ cfg[n] = Instance(NotDefined)
    \/ /\ n # kDefaultCacheMgrInstance
       /\ \/ cfg[n] \in {Instance("ram"), Instance("posix"),
                         [Instance("external") EXCEPT !.locator = TRUE]}
          \/ /\ cfg[n].type = "tiered"
             /\ cfg[n].upper # NotDefined /\ cfg[n].lower # NotDefined
             /\ ~cfg[n].tiered_create_fails

RECURSIVE Tree(_, _, _)
Tree(type, cfg, n) ==
  IF n # kDefaultCacheMgrInstance /\ cfg[n].type = "tiered"
    THEN CacheMgr("tiered", n, FALSE,
                  <<Tree(type, cfg, cfg[n].upper), Tree(type, cfg, cfg[n].lower)>>)
  ELSE IF IsPosix(cfg, n)
    THEN CacheMgr("posix", n, DeterminePosixCacheSettings(type, cfg[n]).is_managed, <<>>)
  ELSE CacheMgr(cfg[n].type, n, TRUE, <<>>)

\* C15 as stated: a name is refused as circular only when it is an ancestor
\* whose resolution has not returned, and a sound configuration without a
\* cycle resolves to the manager tree it describes, also when it names one
\* instance twice.
C15_CircularOnlyForAncestors ==
  (Triaged /\ cache.primary = "a") =>
    /\ \A i \in DOMAIN cache.st.failures :
         cache.st.failures[i].msg = "circular cache definition"
           => cache.st.failures[i].instance \in Range(cache.st.failures[i].ancestors)
    /\ (cache.pc = "resolved" /\ Sound(cache.cfg, "a") /\ ~Cyclic(cache.cfg, "a"))
         => cache.cache_mgr_ = Tree(cache.st.type_, cache.cfg, "a")

C17_ChildFailureVerbatim ==
  (cache.pc = "resolved" /\ cache.st.failures # <<>>) =>
    /\ Len(cache.st.failures) = 1
    /\ cache.st.boot_status_ = cache.st.failures[1].code
    /\ cache.st.boot_error_ = [msg |-> cache.st.failures[1].msg,
                               instance |-> cache.st.failures[1].instance]
    /\ cache.cache_mgr_ = NullMgr

\* C17 witness: the lower cache "c" of the upper cache "b" of "a" has an
\* unknown allocator, and the boot status and error are those of "c".
C17_Witness ==
  /\ cache.pc = "resolved" /\ cache.primary = "a"
  /\ cache.cfg["a"].type = "tiered" /\ cache.cfg["a"].upper = "b"
  /\ cache.cfg["b"].type = "tiered" /\ cache.cfg["b"].lower = "c"
  /\ cache.st.failures # <<>>
  /\ cache.st.failures[1].ancestors = <<"a", "b", "c">>
  /\ cache.st.boot_status_ = "kFailOptions"
  /\ cache.st.boot_error_ = [msg |-> "Failure: unknown malloc", instance |-> "c"]

\* The positions in the calls on collaborators of the calls of one kind.
Calls(st, op) == {i \in DOMAIN st.events : st.events[i].op = op}

\* C18: once the quota manager of the default posix cache exists, Cleanup is
\* called exactly once, with quota_limit / 2 and in front of
\* AcquireQuotaManager, if the size is beyond the capacity, and not at all
\* otherwise; a cleanup that leaves the cache beyond the capacity ends in
\* kFailQuota without a cache manager.
C18_CleanupOnceBeforeAttach ==
  LET o == cache.cfg[kDefaultCacheMgrInstance]
      limit == DeterminePosixCacheSettings(cache.st.type_, o).quota_limit
      new_quota == [op |-> "new", object |-> <<"quota", kDefaultCacheMgrInstance>>, arg |-> 0]
  IN  (/\ cache.pc = "resolved" /\ cache.primary = NotDefined
       /\ \E i \in DOMAIN cache.st.events : cache.st.events[i] = new_quota)
        => /\ o.size > limit =>
                /\ Cardinality(Calls(cache.st, "Cleanup")) = 1
                /\ \A i \in Calls(cache.st, "Cleanup") :
                     /\ cache.st.events[i].arg = limit \div 2
                     /\ \A j \in Calls(cache.st, "AcquireQuotaManager") : i < j
           /\ o.size <= limit => Calls(cache.st, "Cleanup") = {}
           /\ (o.size > limit /\ o.size_after > limit) =>
                /\ cache.st.boot_status_ = "kFailQuota"
                /\ cache.cache_mgr_ = NullMgr
                /\ Calls(cache.st, "AcquireQuotaManager") = {}

\* C18 witness: a cache beyond its quota of 2 MiB was cleaned up to 1 MiB
\* and the quota manager was attached after that.
C18_Witness ==
  /\ cache.pc = "resolved" /\ cache.primary = NotDefined
  /\ cache.cfg[kDefaultCacheMgrInstance].quota_mb = 2
  /\ cache.cfg[kDefaultCacheMgrInstance].size > 2 * MiB
  /\ cache.cache_mgr_ = CacheMgr("posix", kDefaultCacheMgrInstance, TRUE, <<>>)
  /\ \E i, j \in DOMAIN cache.st.events :
       /\ i < j
       /\ cache.st.events[i] = [op |-> "Cleanup",
                                object |-> <<"quota", kDefaultCacheMgrInstance>>,
                                arg |-> MiB]
       /\ cache.st.events[j].op = "AcquireQuotaManager"

-----------------------------------------------------------------------------
\* Claims on the stages of MountPoint::Create.

\* The members a stage of MountPoint::Create constructs on a file system of
\* the given type.
BuiltBy(stage, type) ==
  CASE stage = "CreateStatistics" -> {"statistics_"}
    [] stage = "CreateAuthz" -> {"authz_fetcher_", "authz_session_mgr_", "authz_attachment_"}
    [] stage = "BackoffThrottle" -> {"backoff_throttle_"}
    [] stage = "CreateSignatureManager" -> {"signature_mgr_"}
    [] stage = "CreateDownloadManagers" -> {"download_mgr_", "external_download_mgr_"}
    [] stage = "CreateFetchers" -> {"fetcher_", "external_fetcher_"}
    [] stage = "CreateCatalogManager" -> {"catalog_mgr_", "inode_annotation_"}
    [] stage = "CreateTracer" -> {"tracer_"}
    [] stage = "CreateTables" -> LookupTables(type)
    [] OTHER -> {}

\* The position of a stage in MountPoint::Create.
StageIndex(stage) == CHOOSE i \in DOMAIN MountStageOrder : MountStageOrder[i] = stage

\* The members the stages after the given one construct.
BuiltLater(stage, type) ==
  UNION {BuiltBy(MountStageOrder[i], type) :
           i \in (StageIndex(stage) + 1)..Len(MountStageOrder)}

\* C19: a MountPoint whose primary download manager got an empty proxy list
\* has boot status kFailWpad; CreateDownloadManagers was its last stage, so
\* it has no external download manager, no fetcher, no catalog manager (and
\* no root hash), no tracer and no tables, and SetupBehavior did not run.
C19_EmptyProxiesHalt ==
  \A p \in Procs :
    (/\ mp[p] # NoMountPoint
     /\ mp[p].failed_at = "CreateDownloadManagers"
     /\ "external_download_mgr_" \notin mp[p].built)
      => /\ mp[p].boot_status_ = "kFailWpad"
         /\ mp[p].stages = SubSeq(MountStageOrder, 1, StageIndex("CreateDownloadManagers"))
         /\ mp[p].built \cap {"fetcher_", "external_fetcher_", "catalog_mgr_",
                              "inode_annotation_", "tracer_"} = {}
         /\ mp[p].built \cap LookupTables(fs[p].type_) = {}
         /\ ~mp[p].fixed_catalog_
         /\ "download_mgr_" \in mp[p].built

\* C19 witness: a MountPoint on a booted FileSystem that stopped at the proxy
\* list of its primary download manager.
C19_Witness ==
  \E p \in Procs :
    /\ fs[p].pc = "ready" /\ fs[p].boot_status_ = "kFailOk"
    /\ mp[p] # NoMountPoint
    /\ mp[p].failed_at = "CreateDownloadManagers"
    /\ mp[p].built = {"statistics_", "authz_fetcher_", "authz_session_mgr_",
                      "authz_attachment_", "backoff_throttle_", "signature_mgr_",
                      "download_mgr_"}

\* The failure codes a stage of MountPoint::Create assigns.
CodesOf(stage) ==
  CASE stage \in {"CreateSignatureManager", "CheckBlacklists"} -> {"kFailSignature"}
    [] stage = "CreateDownloadManagers" -> {"kFailWpad"}
    [] stage = "CreateCatalogManager" -> {"kFailOptions", "kFailHistory", "kFailCatalog"}
    [] stage = "CreateTracer" -> {"kFailOptions"}
    [] OTHER -> {}

\* C20: when the signature manager, the blacklist check, the download
\* managers, the catalog manager or the tracer fails, MountPoint::Create
\* returns the object as it is: the failing stage is the last one that ran,
\* no member of a later stage is constructed, the boot status is a code of
\* the failing stage, and the members of the earlier stages are there.
C20_HaltAndReport ==
  \A p \in Procs :
    (mp[p] # NoMountPoint /\ mp[p].failed_at # "") =>
      LET at == StageIndex(mp[p].failed_at)
      IN  /\ mp[p].failed_at \in {"CreateSignatureManager", "CheckBlacklists",
                                  "CreateDownloadManagers", "CreateCatalogManager",
                                  "CreateTracer"}
          /\ mp[p].stages = SubSeq(MountStageOrder, 1, at)
          /\ mp[p].built \cap BuiltLater(mp[p].failed_at, fs[p].type_) = {}
          /\ \A i \in 1..(at - 1) :
               BuiltBy(MountStageOrder[i], fs[p].type_) \subseteq mp[p].built
          /\ mp[p].boot_status_ \in CodesOf(mp[p].failed_at)

\* C20 witness: a MountPoint that stopped at the tracer, with its catalog
\* manager and without tables.
C20_Witness ==
  \E p \in Procs :
    /\ mp[p] # NoMountPoint
    /\ mp[p].failed_at = "CreateTracer"
    /\ mp[p].boot_status_ = "kFailOptions"
    /\ "catalog_mgr_" \in mp[p].built
    /\ "md5path_cache_" \notin mp[p].built

\* The stages a MountPoint ran after CreateCatalogManager.
AfterCatalog(m) ==
  LET at == CHOOSE i \in DOMAIN m.stages : m.stages[i] = "CreateCatalogManager"
  IN  SubSeq(m.stages, at + 1, Len(m.stages))

\* seq is the beginning of whole.
IsPrefix(seq, whole) ==
  Len(seq) <= Len(whole) /\ seq = SubSeq(whole, 1, Len(seq))

\* C21 as amended: after the catalog manager MountPoint::Create runs the
\* tracer, then re-evaluates the membership requirement, creates the lookup
\* tables and applies the behaviour tunables; a MountPoint that stopped at
\* the tracer has no lookup tables and no re-evaluated membership.
C21_TracerBeforeTables ==
  \A p \in Procs :
    (/\ mp[p] # NoMountPoint
     /\ "CreateCatalogManager" \in Range(mp[p].stages)
     /\ mp[p].failed_at # "CreateCatalogManager")
      => LET tail == AfterCatalog(mp[p])
             order == <<"CreateTracer", "ReEvaluateAuthz", "CreateTables", "SetupBehavior">>
         IN  /\ tail # <<>> /\ IsPrefix(tail, order)
             /\ mp[p].failed_at = "CreateTracer" =>
                  /\ tail = <<"CreateTracer">>
                  /\ mp[p].built \cap LookupTables(fs[p].type_) = {}
                  /\ "tracer_" \in mp[p].built
             /\ mp[p].failed_at = "" =>
                  /\ tail = order
                  /\ LookupTables(fs[p].type_) \subseteq mp[p].built

\* C21 witness: a MountPoint of a library file system with CVMFS_TRACEFILE
\* set stopped at the tracer, right after the catalog manager.
C21_Witness ==
  \E p \in Procs :
    /\ mp[p] # NoMountPoint
    /\ fs[p].type_ = "kFsLibrary"
    /\ mp[p].failed_at = "CreateTracer"
    /\ AfterCatalog(mp[p]) = <<"CreateTracer">>

\* C21 as stated: after the catalog manager come the membership requirement,
\* the lookup tables, the tracer and the behaviour tunables, so a MountPoint
\* that stopped at the tracer has its lookup tables.
C21_TablesBeforeTracer ==
  \A p \in Procs :
    (/\ mp[p] # NoMountPoint
     /\ "CreateCatalogManager" \in Range(mp[p].stages)
     /\ mp[p].failed_at # "CreateCatalogManager")
      => /\ IsPrefix(AfterCatalog(mp[p]),
                     <<"ReEvaluateAuthz", "CreateTables", "CreateTracer", "SetupBehavior">>)
         /\ mp[p].failed_at = "CreateTracer" =>
              LookupTables(fs[p].type_) \subseteq mp[p].built

\* C27 as stated: a MountPoint created over a FileSystem whose boot status is
\* not kFailOk runs no stage that uses the FileSystem's uuid or cache
\* manager and does not end with kFailOk.
C27_FailedFileSystemUnused ==
  \A p \in Procs :
    (mp[p] # NoMountPoint /\ fs[p].boot_status_ # "kFailOk")
      => /\ mp[p].boot_status_ # "kFailOk"
         /\ "CreateDownloadManagers" \notin Range(mp[p].stages)
         /\ "CreateFetchers" \notin Range(mp[p].stages)

-----------------------------------------------------------------------------
\* Root hash resolution.

\* The run resolved its root hash (and built or gave up its MountPoint).
Resolved == unit.pc \in {"mounted", "unmounted"}

\* The run resolved its root hash and did not reach it: the MountPoint
\* stopped in CreateCatalogManager with kFailHistory.
HistoryFailure ==
  /\ ~unit.resolved.ok
  /\ unit.resolved.boot_status_ = "kFailHistory"
  /\ unit.pc = "mounted" =>
       /\ unit.mp.boot_status_ = "kFailHistory"
       /\ unit.mp.failed_at = "CreateCatalogManager"

\* C22: DetermineRootHash returns the configured hash when CVMFS_ROOT_HASH is
\* set, the null hash when neither tag nor date is set, the root hash of the
\* tag of exactly the configured name when a tag is set, and for a date the
\* root hash of a tag that is not after the date and not before any other
\* such tag; a missing tag, a date before every tag and a malformed date
\* fail with kFailHistory.
C22_RootHashResolved ==
  Resolved =>
    LET o == unit.options
        r == unit.resolved
        db == unit.history.tag_db
        d == o.CVMFS_REPOSITORY_DATE
    IN  /\ IsDefined(o, "CVMFS_ROOT_HASH") =>
             /\ r.ok
             /\ r.root_hash.digest =
                  [i \in DOMAIN o.CVMFS_ROOT_HASH |-> HexValue(o.CVMFS_ROOT_HASH[i])]
        /\ (/\ ~IsDefined(o, "CVMFS_ROOT_HASH")
            /\ ~IsDefined(o, "CVMFS_REPOSITORY_TAG")
            /\ ~IsDefined(o, "CVMFS_REPOSITORY_DATE")) => r.ok /\ IsNull(r.root_hash)
        /\ (/\ ~IsDefined(o, "CVMFS_ROOT_HASH")
            /\ IsDefined(o, "CVMFS_REPOSITORY_TAG")
            /\ unit.history.fault = "none") =>
             IF \E t \in db : t.name = o.CVMFS_REPOSITORY_TAG
               THEN /\ r.ok
                    /\ \E t \in db : /\ t.name = o.CVMFS_REPOSITORY_TAG
                                     /\ r.root_hash = t.root_hash
               ELSE HistoryFailure
        /\ (/\ ~IsDefined(o, "CVMFS_ROOT_HASH")
            /\ ~IsDefined(o, "CVMFS_REPOSITORY_TAG")
            /\ IsDefined(o, "CVMFS_REPOSITORY_DATE")
            /\ unit.history.fault = "none") =>
             IF ~d.wellformed \/ \A t \in db : t.timestamp > d.utc
               THEN HistoryFailure
               ELSE /\ r.ok
                    /\ \E t \in db : /\ t.timestamp <= d.utc
                                     /\ r.root_hash = t.root_hash
                                     /\ \A u \in db : u.timestamp <= d.utc
                                                        => u.timestamp <= t.timestamp

\* C22 witness: a date between the two tags of the repository resolved to
\* the root hash of the older tag.
C22_Witness ==
  /\ Resolved
  /\ ~IsDefined(unit.options, "CVMFS_ROOT_HASH")
  /\ ~IsDefined(unit.options, "CVMFS_REPOSITORY_TAG")
  /\ IsDefined(unit.options, "CVMFS_REPOSITORY_DATE")
  /\ Cardinality(unit.history.tag_db) = 2
  /\ \E v1, v2 \in unit.history.tag_db :
       /\ v1.timestamp <= unit.options.CVMFS_REPOSITORY_DATE.utc
       /\ unit.options.CVMFS_REPOSITORY_DATE.utc < v2.timestamp
       /\ unit.resolved.ok
       /\ unit.resolved.root_hash = v1.root_hash
       /\ unit.resolved.repository_tag_ = v1.name

\* The run booted its MountPoint.
Mounted == unit.pc = "mounted" /\ unit.mp.boot_status_ = "kFailOk"

\* C23 as amended: after a successful boot the mount is flagged fixed exactly
\* when the resolved root hash is not the null hash or CVMFS_AUTO_UPDATE is
\* defined and not on; a tag or a date always flags it, an explicit hash
\* does unless it is all zeros.
C23_FixedCatalog ==
  Mounted =>
    LET o == unit.options
        off == IsDefined(o, "CVMFS_AUTO_UPDATE") /\ o.CVMFS_AUTO_UPDATE = "no"
    IN  /\ unit.mp.fixed_catalog_ <=> (~IsNull(unit.resolved.root_hash) \/ off)
        /\ (/\ ~IsDefined(o, "CVMFS_ROOT_HASH")
            /\ \/ IsDefined(o, "CVMFS_REPOSITORY_TAG")
               \/ IsDefined(o, "CVMFS_REPOSITORY_DATE")) => unit.mp.fixed_catalog_
        /\ (IsDefined(o, "CVMFS_ROOT_HASH") /\ ~off) =>
             (unit.mp.fixed_catalog_ <=> \E i \in DOMAIN o.CVMFS_ROOT_HASH :
                                            o.CVMFS_ROOT_HASH[i] # "0")
        /\ (/\ ~IsDefined(o, "CVMFS_ROOT_HASH")
            /\ ~IsDefined(o, "CVMFS_REPOSITORY_TAG")
            /\ ~IsDefined(o, "CVMFS_REPOSITORY_DATE")) => (unit.mp.fixed_catalog_ <=> off)

\* C23 witness: a mount with no hash, tag or date and CVMFS_AUTO_UPDATE=no
\* booted and is flagged fixed.
C23_Witness ==
  /\ Mounted
  /\ ~IsDefined(unit.options, "CVMFS_ROOT_HASH")
  /\ ~IsDefined(unit.options, "CVMFS_REPOSITORY_TAG")
  /\ ~IsDefined(unit.options, "CVMFS_REPOSITORY_DATE")
  /\ IsDefined(unit.options, "CVMFS_AUTO_UPDATE") /\ unit.options.CVMFS_AUTO_UPDATE = "no"
  /\ unit.mp.fixed_catalog_

\* C23 as stated: after a successful boot the mount is flagged fixed when a
\* hash, a tag or a date is configured and is not flagged fixed when none is.
C23_FixedIffConfigured ==
  Mounted =>
    (unit.mp.fixed_catalog_ <=>
       \/ IsDefined(unit.options, "CVMFS_ROOT_HASH")
       \/ IsDefined(unit.options, "CVMFS_REPOSITORY_TAG")
       \/ IsDefined(unit.options, "CVMFS_REPOSITORY_DATE"))

-----------------------------------------------------------------------------
\* Workspace and cache directory.

\* The directory a path names for a process whose working directory is cwd.
Directory(path, cwd) == IF path = "." THEN cwd ELSE MakeCanonicalPath(path)

\* The shared cache is switched on under one of its two option names.
SharedOn(o) ==
  \/ IsDefined(o, "CVMFS_CACHE_SHARED") /\ o.CVMFS_CACHE_SHARED = "yes"
  \/ IsDefined(o, "CVMFS_SHARED_CACHE") /\ o.CVMFS_SHARED_CACHE = "yes"

\* C26 as stated: the workspace is CVMFS_WORKSPACE, else CVMFS_CACHE_DIR,
\* else the cache base (CVMFS_CACHE_BASE or the default) with "/shared" for a
\* shared cache and "/<name>" otherwise; and without CVMFS_WORKSPACE and
\* alien cache the cache path of the default instance names the workspace
\* directory, whichever option name switches the shared cache on.
C26_CacheInWorkspace ==
  LET o == unit.options
      base == IF IsDefined(o, "CVMFS_CACHE_BASE") THEN "/b" ELSE "/var/lib/cvmfs"
      suffix == IF SharedOn(o) THEN "/shared" ELSE "/repo"
  IN  /\ unit.pc \in {"workspace", "cache", "aborted"} =>
           unit.workspace_ = IF IsDefined(o, "CVMFS_WORKSPACE") THEN o.CVMFS_WORKSPACE
                             ELSE IF IsDefined(o, "CVMFS_CACHE_DIR") THEN o.CVMFS_CACHE_DIR
                             ELSE base \o suffix
      /\ (/\ unit.pc = "cache"
          /\ ~IsDefined(o, "CVMFS_WORKSPACE")
          /\ ~IsDefined(o, "CVMFS_ALIEN_CACHE")
          /\ ~IsDefined(o, "CVMFS_CACHE_ALIEN"))
           => Directory(unit.cache_path, unit.workspace_)
                = Directory(unit.workspace_, unit.workspace_)

\* C30: in library mode posix settings that are shared or managed end the
\* resolution with kFailOptions with nothing constructed, and no quota
\* manager is ever set up in library mode; a boot with CVMFS_CACHE_BASE and
\* CVMFS_CACHE_DIR both defined fails in SetupWorkspace with kFailOptions.
C30_LibraryUnmanagedExclusive ==
  /\ (unit.pc \in {"cache", "aborted"} /\ unit.type = "kFsLibrary") =>
       /\ \A i \in DOMAIN unit.st.events : unit.st.events[i].object[1] # "quota"
       /\ unit.pc = "cache"
       /\ (unit.settings.is_shared \/ unit.settings.is_managed) =>
            /\ unit.cache_mgr_ = NullMgr
            /\ unit.st.boot_status_ = "kFailOptions"
            /\ unit.st.events = <<>>
            /\ unit.st.live = {}
  /\ (/\ unit.pc \in {"workspace", "failed", "cache", "aborted"}
      /\ IsDefined(unit.options, "CVMFS_CACHE_BASE")
      /\ IsDefined(unit.options, "CVMFS_CACHE_DIR")) =>
       /\ unit.pc = "failed"
       /\ unit.file_system.boot_status_ = "kFailOptions"
       /\ unit.file_system.failed_at = "SetupWorkspace"

\* C30 witness: a library with a quota limit on its default cache, not
\* shared and not alien, has been refused.
C30_Witness ==
  /\ unit.pc = "cache"
  /\ unit.type = "kFsLibrary"
  /\ unit.settings.is_managed /\ ~unit.settings.is_shared /\ ~unit.settings.is_alien
  /\ unit.st.boot_status_ = "kFailOptions"

-----------------------------------------------------------------------------
\* NFS maps and the cache directory.

\* C24 as stated: a boot on a cache directory that a boot of the other mode
\* used since the last wipe fails with kFailNfsMaps, be it an NFS source
\* after a boot without NFS maps or a boot without NFS maps after an NFS
\* source.
C24_ModeSwitchNeedsWipe ==
  \A i \in DOMAIN unit.boots :
    LET boot == unit.boots[i]
        other == IF boot.nfs_source THEN "non-NFS" ELSE "NFS"
    IN  other \in boot.used_before => boot.boot_status_ = "kFailNfsMaps"

-----------------------------------------------------------------------------
\* The crash guard.

\* The FileSystem of process p opened running.<name> in SetupCrashGuard and
\* has not been torn down, neither by ~FileSystem nor by TearDown2ReadOnly.
GuardedBy(p) ==
  /\ fs[p].pc \in {"TriageCacheMgr", "SetupNfsMaps", "ready"}
  /\ "SetupCrashGuard" \in Range(fs[p].stages)
  /\ fs[p].failed_at # "SetupCrashGuard"

\* C25 as stated: running.<name> is removed only by the graceful teardown of
\* the context that created it, so it exists as long as that context has
\* not been torn down, and a context that ends without teardown leaves it
\* to the next context, which then has found_previous_crash_ true.
C25_SentinelOutlivesCrash ==
  \A p \in Procs : GuardedBy(p) => running_file

-----------------------------------------------------------------------------
\* max_ttl_sec_ under lock_max_ttl_.

\* Thread t is at a load or a store of max_ttl_sec_.
Accessing(t) == Thread(t).pc \in {"store", "storing", "load"}

\* Thread t is in a getter, or back from one, with max_ttl_sec_ loaded.
Loaded(t) ==
  /\ Thread(t).op \in {"GetMaxTtlMn", "GetEffectiveTtlSec"}
  /\ Thread(t).pc \in {"unlock", "GetTTL", "idle"}

\* C29: every load and store of max_ttl_sec_ after construction is done by
\* the thread that holds lock_max_ttl_, and what a getter loads is the
\* initial default or a value stored by one whole SetMaxTtlMn call; the
\* getters return it in minutes or capped by the TTL of the catalog.
C29_TtlUnderLock ==
  unit.pc = "ttl" =>
    \A t \in Threads :
      /\ Accessing(t) => unit.lock_max_ttl_ = t
      /\ Loaded(t) =>
           /\ Thread(t).local \in {kDefaultMaxTtlSec} \cup unit.written
           /\ \E m \in 0..MaxTtlMn : Thread(t).local = m * 60
      /\ (Loaded(t) /\ Thread(t).pc = "idle" /\ Thread(t).op = "GetMaxTtlMn") =>
           Thread(t).ret * 60 = Thread(t).local
      /\ (Loaded(t) /\ Thread(t).pc = "idle" /\ Thread(t).op = "GetEffectiveTtlSec") =>
           /\ Thread(t).ret \in CatalogTtls \cup {Thread(t).local}
           /\ Thread(t).local # 0 => Thread(t).ret <= Thread(t).local

\* C29 witness: a getter has loaded a value that SetMaxTtlMn stored while
\* another thread is inside SetMaxTtlMn, waiting for the lock.
C29_Witness ==
  /\ unit.pc = "ttl"
  /\ \E t, u \in Threads :
       /\ Loaded(t) /\ Thread(t).pc = "unlock" /\ Thread(t).local = MaxTtlMn * 60
       /\ Thread(u).op = "SetMaxTtlMn" /\ Thread(u).pc = "lock" /\ Thread(u).arg # MaxTtlMn

-----------------------------------------------------------------------------
\* C28: while ~MountPoint runs, every member that is still alive has all the
\* collaborators it was constructed with still alive, and Fini() is called on
\* existing members with live collaborators only: the catalog manager goes
\* before the fetchers, the signature manager and the inode annotation, the
\* fetchers before the download managers and the backoff throttle, the
\* download managers before the authz attachment, everything before the
\* statistics.  This holds for a MountPoint whose Create stopped at any
\* stage, and the destructor leaves no member alive.
C28_ReverseDependencyOrder ==
  unit.pc \in {"created", "destroying", "destroyed"} =>
    /\ \A member \in unit.alive \ CtorMembers :
         ConstructedWith(member, unit.type) \subseteq unit.alive
    /\ unit.dangling = {}
    /\ unit.finished \subseteq unit.mp.built
    /\ Len(unit.deleted) = Cardinality((unit.mp.built \cup CtorMembers) \ unit.alive)
    /\ unit.pc = "destroyed" => unit.alive = {}

\* The destructor of a MountPoint that stopped in CreateDownloadManagers, so
\* without fetchers and catalog manager, has finished and deleted the
\* download manager while the attachment and the statistics still exist.
C28_Witness ==
  /\ unit.pc = "destroying"
  /\ unit.mp.failed_at = "CreateDownloadManagers"
  /\ "fetcher_" \notin unit.mp.built
  /\ "download_mgr_" \in unit.finished
  /\ {"authz_attachment_", "statistics_"} \subseteq unit.alive

-----------------------------------------------------------------------------
\* The size CVMFS_CACHE_SIZE asks for, in bytes and without a width: the
\* percentage of the physical memory, the size in MiB times 2^20, or a 32nd
\* of the physical memory.
Requested(memsize, o) ==
  IF o.size_defined
    THEN IF HasSuffix(o.CVMFS_CACHE_SIZE, "%")
           THEN Norm(NatDivRem(NatMul(memsize, DecimalValue(o.CVMFS_CACHE_SIZE, <<>>)), 100).q)
           ELSE Norm(NatMulSmall(DecimalValue(o.CVMFS_CACHE_SIZE, <<>>), 1024 * 1024, 0))
    ELSE Norm(NatDivRem(memsize, 32).q)

\* C31: the byte budget handed to the RAM cache manager is a multiple of 8,
\* at least 200 MiB and at least the requested size, for every size option
\* that fits 64 bits.
C31_RamBudget ==
  unit.pc = "ram created" =>
    /\ NatDivRem(unit.sz_cache_bytes, 8).r = 0
    /\ NatCmp(unit.sz_cache_bytes, MinRamCacheBytes) >= 0
    /\ NatCmp(unit.sz_cache_bytes, Requested(unit.memsize, unit.options)) >= 0

-----------------------------------------------------------------------------
\* C32: GetEffectiveTtlSec returns the catalog TTL when the maximum TTL is 0
\* and the smaller of the two otherwise, so never more than the catalog TTL;
\* GetMaxTtlMn returns the minutes of the last SetMaxTtlMn, for every
\* unsigned value.
C32_TtlRoundTrip ==
  unit.pc = "ttl value" =>
    /\ unit.op = "GetEffectiveTtlSec" =>
         /\ NatCmp(unit.ret, unit.catalog_ttl_sec) <= 0
         /\ unit.max_ttl_sec_ = <<>> => unit.ret = unit.catalog_ttl_sec
         /\ unit.max_ttl_sec_ # <<>> =>
              /\ unit.ret \in {unit.max_ttl_sec_, unit.catalog_ttl_sec}
              /\ NatCmp(unit.ret, unit.max_ttl_sec_) <= 0
    /\ (unit.op = "GetMaxTtlMn" /\ unit.set # <<>>) => unit.ret = unit.set[1]

-----------------------------------------------------------------------------
\* C33: no combination of cache and workspace options ends in an assertion
\* abort: the assertion of SetupPosixQuotaMgr that the cache path of a
\* managed cache that is not shared is the workspace, and the assertion of
\* SetupNfsMaps that the posix cache path is the workspace, hold whenever
\* they are reached; a wrong configuration ends with a failure code.
C33_NoAssertionAbort ==
  unit.pc \in {"workspace options", "workspace", "failed", "cache", "aborted", "nfs maps"} =>
    /\ unit.pc # "aborted"
    /\ unit.assertion = ""

-----------------------------------------------------------------------------
\* C34: after a context was killed, the first later context that constructs
\* the exclusive quota manager or initialises the NFS maps hands
\* found_previous_crash = true to it, also when contexts in between set up
\* the workspace, failed at a later stage and were destroyed.
C34_CrashFlagSurvivesFailedBoots ==
  (unit.pc = "file system" /\ unit.owed_before) =>
    \A call \in unit.handed : call.found_previous_crash

-----------------------------------------------------------------------------
\* C35: CVMFS_ROOT_HASH goes before the tag and the tag before the date.
\* With CVMFS_ROOT_HASH set nothing is fetched and the outcome is the written
\* hash whatever tag and date say; with tag and date both set the tag is
\* looked up by name, the date is not parsed and the outcome does not depend
\* on it, even when it is malformed; and the date is parsed only after the
\* manifest and the history database were fetched and the database opened.
C35_HashTagDatePrecedence ==
  Resolved =>
    LET o == unit.options
        r == unit.resolved
        db == unit.history.tag_db
        called == {r.calls[i] : i \in DOMAIN r.calls}
    IN  /\ IsDefined(o, "CVMFS_ROOT_HASH") =>
             /\ r.calls = <<>>
             /\ r.ok /\ r.repository_tag_ = ""
             /\ r.root_hash = MkFromHexPtr(o.CVMFS_ROOT_HASH, "C")
        /\ (/\ ~IsDefined(o, "CVMFS_ROOT_HASH")
            /\ IsDefined(o, "CVMFS_REPOSITORY_TAG")
            /\ IsDefined(o, "CVMFS_REPOSITORY_DATE")) =>
             /\ called \cap {"IsoTimestamp2UtcTime", "GetByDate"} = {}
             /\ unit.history.fault = "none" =>
                  /\ r.calls[Len(r.calls)] = "GetByName"
                  /\ r.repository_tag_ = o.CVMFS_REPOSITORY_TAG
                  /\ r.ok <=> \E t \in db : t.name = o.CVMFS_REPOSITORY_TAG
                  /\ r.ok => \E t \in db : /\ t.name = o.CVMFS_REPOSITORY_TAG
                                           /\ r.root_hash = t.root_hash
        /\ "IsoTimestamp2UtcTime" \in called =>
             /\ Len(r.calls) >= 4
             /\ SubSeq(r.calls, 1, 4) = <<"manifest::Fetch", "Fetcher::Fetch",
                                          "SqliteHistory::Open", "IsoTimestamp2UtcTime">>
             /\ ~IsDefined(o, "CVMFS_REPOSITORY_TAG")

\* C35 witness: tag v1 and a malformed date are both set, and the run
\* resolved the root hash of v1 by name.
C35_Witness ==
  /\ Resolved
  /\ ~IsDefined(unit.options, "CVMFS_ROOT_HASH")
  /\ IsDefined(unit.options, "CVMFS_REPOSITORY_TAG")
  /\ IsDefined(unit.options, "CVMFS_REPOSITORY_DATE")
  /\ ~unit.options.CVMFS_REPOSITORY_DATE.wellformed
  /\ unit.options.CVMFS_REPOSITORY_TAG = "v1"
  /\ unit.resolved.ok
  /\ unit.resolved.repository_tag_ = "v1"
  /\ unit.resolved.calls = <<"manifest::Fetch", "Fetcher::Fetch", "SqliteHistory::Open",
                             "GetByName">>

====
